---- MODULE Spec2Model ----
(***************************************************************************)
(* A model of the chess-variant rules engine: core/board.py (Board),       *)
(* core/piece.py and core/fairy.py (the ten piece kinds), core/move.py     *)
(* (Move), core/piece_factory.py (create) and core/game.py (Game).         *)
(*                                                                         *)
(* Python objects are modelled by value plus an identity: a piece is a     *)
(* record with an id that stands for the object reference ("q is p" in     *)
(* the code is equality of ids).  An operation that raises is an action    *)
(* like any other: its effect is whatever the code had already written     *)
(* when the exception left the method, and `last.err` names the exception. *)
(*                                                                         *)
(* Kind symbols: "d" stands for the catalogue key U+03B4 (small delta) and *)
(* "D" for U+0394 (capital delta), which is what str.upper() makes of it.  *)
(***************************************************************************)
EXTENDS Integers, Sequences, FiniteSets, TLC

\* ---------------------------------------------------------------- bounds
BoardH == 10
BoardW == 3
MaxOps == 3

\* ---------------------------------------------------------------- values
Colors == {"w", "b"}

Squares == (0 .. BoardH - 1) \X (0 .. BoardW - 1)

\* Board._check_bounds: the condition under which no IndexError is raised.
check_bounds(x, y) == 0 <= x /\ x < BoardH /\ 0 <= y /\ y < BoardW

\* PIECE_REGISTRY: the kind symbols the catalogue can construct.
PIECE_REGISTRY == {"K", "Q", "R", "N", "P", "M", "V", "Y", "d", "H"}

\* str.upper() on a kind symbol (Piece.__init__ stores kind.upper()).
upper(k) == IF k = "d" THEN "D" ELSE k

\* The empty square (Python None).
None == [id |-> 0, kind |-> "", color |-> "", royal |-> FALSE]

\* Piece.__init__ through the subclasses' constructors: never royal.
Piece(kind, color, id) == [id |-> id, kind |-> upper(kind), color |-> color, royal |-> FALSE]

\* A Move without a piece at all, used where an operation takes no move.
NoMove == [fx |-> 0, fy |-> 0, tx |-> 0, ty |-> 0, piece |-> None,
           is_double_step |-> FALSE, is_en_passant |-> FALSE, promotion_to |-> ""]

\* Move(fx, fy, tx, ty, piece, is_double_step, is_en_passant, promotion_to)
Move(fx, fy, tx, ty, piece, dbl, ep, promo) ==
  [fx |-> fx, fy |-> fy, tx |-> tx, ty |-> ty, piece |-> piece,
   is_double_step |-> dbl, is_en_passant |-> ep, promotion_to |-> promo]

Min(S) == CHOOSE m \in S : \A n \in S : m <= n

RemoveAt(s, k) == [i \in 1 .. Len(s) - 1 |-> IF i < k THEN s[i] ELSE s[i + 1]]

\* ---------------------------------------------------------------- state
VARIABLES
  grid,               \* Board.grid: square -> piece or None
  pieces,             \* Board._pieces: colour -> list of (piece, x, y)
  royal_pos,          \* Board._royal_pos: colour -> set of squares, or one tuple
  en_passant_target,  \* Board.en_passant_target: <<>> or <<target, victim>>
  nid,                \* the identity the next constructed piece gets
  turn,               \* Game.turn
  halfmove_clock,     \* Game.halfmove_clock
  position_counts,    \* Game.position_counts: key -> count
  seen,               \* history: how often each position has stood on the board
  last,               \* the last call: operation, arguments, outcome
  ops                 \* number of calls made so far

boardVars == <<grid, pieces, royal_pos, en_passant_target, nid>>
gameVars == <<turn, halfmove_clock, position_counts, seen>>
vars == <<grid, pieces, royal_pos, en_passant_target, nid,
          turn, halfmove_clock, position_counts, seen, last, ops>>

\* The board as one value, for the operators that compute a call's effect.
B == [grid |-> grid, pieces |-> pieces, royal_pos |-> royal_pos,
      en_passant_target |-> en_passant_target, nid |-> nid]

\* Board.__init__: empty grid, empty index, empty royal sets, no EP target.
Board0 ==
  [grid |-> [s \in Squares |-> None],
   pieces |-> [c \in Colors |-> <<>>],
   royal_pos |-> [c \in Colors |-> [tag |-> "set", at |-> {}]],
   en_passant_target |-> <<>>,
   nid |-> 1]

\* A call's outcome: the board it leaves and the exception ("ok" for none).
Ok(b) == [b |-> b, err |-> "ok"]
Raise(b, e) == [b |-> b, err |-> e]

\* ---------------------------------------------------------------- Board primitives
\* Board.at on an in-bounds square.
at(b, x, y) == b.grid[<<x, y>>]

\* Board._index_remove: drop the first entry (p, x, y) of the piece standing there.
index_remove(b, x, y) ==
  LET p == at(b, x, y) IN
  IF p = None THEN b
  ELSE LET bucket == b.pieces[p.color]
           hits == {k \in 1 .. Len(bucket) :
                      bucket[k].p.id = p.id /\ bucket[k].x = x /\ bucket[k].y = y}
       IN IF hits = {} THEN b
          ELSE [b EXCEPT !.pieces[p.color] = RemoveAt(bucket, Min(hits))]

\* Board._index_add: append (p, x, y) for the piece standing there.
index_add(b, x, y) ==
  LET p == at(b, x, y) IN
  IF p = None THEN b
  ELSE [b EXCEPT !.pieces[p.color] = Append(@, [p |-> p, x |-> x, y |-> y])]

\* self._royal_pos[c].discard((x, y)): a tuple has no discard.
royal_discard(b, c, x, y) ==
  IF b.royal_pos[c].tag = "tuple" THEN Raise(b, "AttributeError")
  ELSE Ok([b EXCEPT !.royal_pos[c].at = @ \ {<<x, y>>}])

\* self._royal_pos[c].add((x, y)): a tuple has no add.
royal_add(b, c, x, y) ==
  IF b.royal_pos[c].tag = "tuple" THEN Raise(b, "AttributeError")
  ELSE Ok([b EXCEPT !.royal_pos[c].at = @ \cup {<<x, y>>}])

\* Square.set_piece
set_piece(b, x, y, p) == [b EXCEPT !.grid[<<x, y>>] = p]

\* Board.clear
clear(b, x, y) ==
  IF ~check_bounds(x, y) THEN Raise(b, "IndexError")
  ELSE LET p == at(b, x, y) IN
       IF p = None THEN Ok(b)
       ELSE LET r1 == IF p.royal THEN royal_discard(b, p.color, x, y) ELSE Ok(b) IN
            IF r1.err # "ok" THEN r1
            ELSE Ok(set_piece(index_remove(r1.b, x, y), x, y, None))

\* Board.put
put(b, x, y, kind, color) ==
  IF ~check_bounds(x, y) THEN Raise(b, "IndexError")
  ELSE LET old == at(b, x, y)
           r1 == IF old # None /\ old.royal THEN royal_discard(b, old.color, x, y) ELSE Ok(b)
       IN IF r1.err # "ok" THEN r1
          ELSE LET b2 == index_remove(r1.b, x, y) IN
               IF kind \notin PIECE_REGISTRY THEN Raise(b2, "ValueError")
               ELSE LET piece == Piece(kind, color, b2.nid)
                        b3 == [set_piece(b2, x, y, piece) EXCEPT !.nid = @ + 1]
                    IN Ok(index_add(b3, x, y))

\* p._is_royal = flag, seen through every reference to the piece object.
set_flag(b, x, y, flag) ==
  LET p == at(b, x, y)
      q == [p EXCEPT !.royal = flag]
      upd(bucket) == [k \in 1 .. Len(bucket) |->
                        IF bucket[k].p.id = p.id THEN [bucket[k] EXCEPT !.p = q]
                        ELSE bucket[k]]
  IN [b EXCEPT !.grid[<<x, y>>] = q, !.pieces = [c \in Colors |-> upd(b.pieces[c])]]

\* Board.set_royal (the second definition in the class, which is the one in effect)
set_royal(b, x, y, flag) ==
  IF ~check_bounds(x, y) THEN Raise(b, "IndexError")
  ELSE LET p == at(b, x, y) IN
       IF p = None THEN Raise(b, "ValueError")
       ELSE LET r1 == royal_discard(b, "w", x, y) IN
            IF r1.err # "ok" THEN r1
            ELSE LET r2 == royal_discard(r1.b, "b", x, y) IN
                 IF r2.err # "ok" THEN r2
                 ELSE LET b3 == set_flag(r2.b, x, y, flag) IN
                      IF flag THEN royal_add(b3, p.color, x, y) ELSE Ok(b3)

\* ---------------------------------------------------------------- pieces
Abs(n) == IF n < 0 THEN -n ELSE n
Max2(a, c) == IF a >= c THEN a ELSE c
Sign(n) == IF n > 0 THEN 1 ELSE IF n < 0 THEN -1 ELSE 0

\* Board.pawn_start_rows
pawn_start_rows(side) == IF side = "white" THEN {7, 8} ELSE {1, 2}

\* Board.promotion_row
promotion_row(side) == IF side = "white" THEN 1 ELSE 8

\* Board.promotion_candidates
promotion_candidates == {"Q", "R", "N", "K", "M", "V", "Y", "d", "H"}

SideOf(color) == IF color = "w" THEN "white" ELSE "black"
Forward(color) == IF color = "w" THEN -1 ELSE 1

KingDeltas == {d \in (-1 .. 1) \X (-1 .. 1) : d # <<0, 0>>}
KnightDeltas == {d \in (-2 .. 2) \X (-2 .. 2) : Abs(d[1]) + Abs(d[2]) = 3}
CamelDeltas == {d \in (-3 .. 3) \X (-3 .. 3) :
                  {Abs(d[1]), Abs(d[2])} = {1, 3}}
AlibabaDeltas == {d \in {-2, 0, 2} \X {-2, 0, 2} : d # <<0, 0>>}
RookDirs == {<<-1, 0>>, <<1, 0>>, <<0, -1>>, <<0, 1>>}
BishopDirs == {<<-1, -1>>, <<-1, 1>>, <<1, -1>>, <<1, 1>>}

\* A scan that takes every ray for clear.
ray_open(b, sx, sy, tx, ty) == TRUE

\* The scan loop of the sliding kinds' can_attack: every square strictly
\* between the source and the target along the step is empty.
ray_clear(b, sx, sy, tx, ty) ==
  LET n == Max2(Abs(tx - sx), Abs(ty - sy))
      stepx == Sign(tx - sx)
      stepy == Sign(ty - sy)
  IN \A k \in 1 .. n - 1 : at(b, sx + k * stepx, sy + k * stepy) = None

knight_reach(dx, dy) == (dx = 1 /\ dy = 2) \/ (dx = 2 /\ dy = 1)

\* Rook.can_attack
Rook_can_attack(b, sx, sy, tx, ty) ==
  IF sx = tx /\ sy = ty THEN FALSE
  ELSE IF sx = tx \/ sy = ty THEN ray_clear(b, sx, sy, tx, ty)
  ELSE FALSE

\* The diagonal scan shared by Queen.can_attack and Archbishop.can_attack
diag_can_attack(b, sx, sy, tx, ty) ==
  LET dx == Abs(tx - sx)
      dy == Abs(ty - sy)
  IN dx = dy /\ dx # 0 /\ ray_clear(b, sx, sy, tx, ty)

\* <Kind>.can_attack(board, sx, sy, tx, ty), dispatched on the piece's class
can_attack(b, p, sx, sy, tx, ty) ==
  LET dx == Abs(tx - sx)
      dy == Abs(ty - sy)
      step == Forward(p.color)
  IN CASE p.kind = "K" -> (dx # 0 \/ dy # 0) /\ Max2(dx, dy) = 1
       [] p.kind = "Q" -> IF sx = tx /\ sy = ty THEN FALSE
                          ELSE IF sx = tx \/ sy = ty THEN ray_clear(b, sx, sy, tx, ty)
                          ELSE diag_can_attack(b, sx, sy, tx, ty)
       [] p.kind = "R" -> Rook_can_attack(b, sx, sy, tx, ty)
       [] p.kind = "N" -> knight_reach(dx, dy)
       [] p.kind = "P" -> tx = sx + step /\ (ty - sy = 1 \/ ty - sy = -1)
       [] p.kind = "M" -> ((dx # 0 \/ dy # 0) /\ Max2(dx, dy) = 1) \/ knight_reach(dx, dy)
       [] p.kind = "V" -> knight_reach(dx, dy) \/ (dx = 1 /\ dy = 3) \/ (dx = 3 /\ dy = 1)
       [] p.kind = "Y" -> (dx = 2 /\ dy = 0) \/ (dx = 0 /\ dy = 2) \/ (dx = 2 /\ dy = 2)
       [] p.kind = "D" -> tx = sx + step /\ dy <= 1
       [] p.kind = "H" -> knight_reach(dx, dy) \/ diag_can_attack(b, sx, sy, tx, ty)
       [] OTHER -> FALSE

\* The leapers' loop: every delta that lands in bounds on an empty or enemy square.
leaper_moves(b, p, x, y, deltas) ==
  {Move(x, y, x + d[1], y + d[2], p, FALSE, FALSE, "") :
     d \in {e \in deltas : /\ check_bounds(x + e[1], y + e[2])
                           /\ at(b, x + e[1], y + e[2]).color # p.color}}

\* The sliders' loop: along each direction up to and including the first
\* occupied square, which is kept only when it holds an enemy piece.
slider_moves(b, p, x, y, dirs) ==
  {Move(x, y, x + k[2] * k[1][1], y + k[2] * k[1][2], p, FALSE, FALSE, "") :
     k \in {e \in dirs \X (1 .. Max2(BoardH, BoardW)) :
              /\ check_bounds(x + e[2] * e[1][1], y + e[2] * e[1][2])
              /\ \A j \in 1 .. e[2] - 1 : at(b, x + j * e[1][1], y + j * e[1][2]) = None
              /\ at(b, x + e[2] * e[1][1], y + e[2] * e[1][2]).color # p.color}}

\* Pawn.generate_moves with a double step that jumps over the square in front.
Pawn_generate_moves_jump(b, p, x, y) ==
  LET side == SideOf(p.color)
      dx == Forward(p.color)
      promo_row == promotion_row(side)
      start_rows == pawn_start_rows(side)
      nx == x + dx
      nx2 == x + 2 * dx
      ep == b.en_passant_target
      to(ty) == IF nx = promo_row
                THEN {Move(x, y, nx, ty, p, FALSE, FALSE, sym) : sym \in promotion_candidates}
                ELSE {Move(x, y, nx, ty, p, FALSE, FALSE, "")}
      single == IF at(b, nx, y) = None THEN to(y) ELSE {}
      double == IF /\ x \in start_rows
                   /\ 0 <= nx2 /\ nx2 < BoardH
                   /\ at(b, nx2, y) = None
                THEN {Move(x, y, nx2, y, p, TRUE, FALSE, "")} ELSE {}
      captures == UNION {IF /\ 0 <= ny /\ ny < BoardW
                            /\ at(b, nx, ny) # None
                            /\ at(b, nx, ny).color # p.color
                         THEN to(ny) ELSE {} : ny \in {y - 1, y + 1}}
      enpassant == IF /\ ep # <<>>
                      /\ ep[1][1] = nx
                      /\ 0 <= ep[1][2] /\ ep[1][2] < BoardW
                      /\ (ep[1][2] = y - 1 \/ ep[1][2] = y + 1)
                      /\ check_bounds(ep[2][1], ep[2][2])
                      /\ at(b, ep[2][1], ep[2][2]) # None
                      /\ at(b, ep[2][1], ep[2][2]).color # p.color
                   THEN {Move(x, y, ep[1][1], ep[1][2], p, FALSE, TRUE, "")} ELSE {}
  IN IF 0 <= nx /\ nx < BoardH THEN single \cup double \cup captures \cup enpassant ELSE {}

\* Pawn.generate_moves
Pawn_generate_moves(b, p, x, y) ==
  LET side == SideOf(p.color)
      dx == Forward(p.color)
      promo_row == promotion_row(side)
      start_rows == pawn_start_rows(side)
      nx == x + dx
      nx2 == x + 2 * dx
      ep == b.en_passant_target
      to(ty) == IF nx = promo_row
                THEN {Move(x, y, nx, ty, p, FALSE, FALSE, sym) : sym \in promotion_candidates}
                ELSE {Move(x, y, nx, ty, p, FALSE, FALSE, "")}
      single == IF at(b, nx, y) = None THEN to(y) ELSE {}
      double == IF /\ at(b, nx, y) = None
                   /\ x \in start_rows
                   /\ 0 <= nx2 /\ nx2 < BoardH
                   /\ at(b, nx2, y) = None
                THEN {Move(x, y, nx2, y, p, TRUE, FALSE, "")} ELSE {}
      captures == UNION {IF /\ 0 <= ny /\ ny < BoardW
                            /\ at(b, nx, ny) # None
                            /\ at(b, nx, ny).color # p.color
                         THEN to(ny) ELSE {} : ny \in {y - 1, y + 1}}
      enpassant == IF /\ ep # <<>>
                      /\ ep[1][1] = nx
                      /\ 0 <= ep[1][2] /\ ep[1][2] < BoardW
                      /\ (ep[1][2] = y - 1 \/ ep[1][2] = y + 1)
                      /\ check_bounds(ep[2][1], ep[2][2])
                      /\ at(b, ep[2][1], ep[2][2]) # None
                      /\ at(b, ep[2][1], ep[2][2]).color # p.color
                   THEN {Move(x, y, ep[1][1], ep[1][2], p, FALSE, TRUE, "")} ELSE {}
  IN IF 0 <= nx /\ nx < BoardH THEN single \cup double \cup captures \cup enpassant ELSE {}

\* Sergeant._emit_step
Sergeant_emit_step(b, p, x, y, nx, ny) ==
  LET promo_row == promotion_row(SideOf(p.color))
      ep == b.en_passant_target
  IN IF ~check_bounds(nx, ny) THEN {}
     ELSE IF at(b, nx, ny) # None /\ at(b, nx, ny).color = p.color THEN {}
     ELSE IF nx = promo_row
          THEN {Move(x, y, nx, ny, p, FALSE, FALSE, sym) : sym \in promotion_candidates}
     ELSE IF /\ ep # <<>>
             /\ <<nx, ny>> = ep[1]
             /\ check_bounds(ep[2][1], ep[2][2])
             /\ at(b, ep[2][1], ep[2][2]) # None
             /\ at(b, ep[2][1], ep[2][2]).color # p.color
          THEN {Move(x, y, nx, ny, p, FALSE, TRUE, "")}
     ELSE {Move(x, y, nx, ny, p, FALSE, FALSE, "")}

\* Sergeant.generate_moves
Sergeant_generate_moves(b, p, x, y) ==
  LET dx == Forward(p.color)
      start_rows == pawn_start_rows(SideOf(p.color))
      nx2 == x + 2 * dx
      free(i, j) == check_bounds(i, j) /\ at(b, i, j) = None
      two(dy) == IF free(x + dx, y + dy) /\ free(nx2, y + 2 * dy)
                 THEN {Move(x, y, nx2, y + 2 * dy, p, TRUE, FALSE, "")} ELSE {}
  IN Sergeant_emit_step(b, p, x, y, x + dx, y)
       \cup Sergeant_emit_step(b, p, x, y, x + dx, y - 1)
       \cup Sergeant_emit_step(b, p, x, y, x + dx, y + 1)
       \cup (IF x \in start_rows THEN two(0) \cup two(-1) \cup two(1) ELSE {})

\* <Kind>.generate_moves(board, x, y), dispatched on the piece's class
generate_moves(b, p, x, y) ==
  CASE p.kind = "K" -> leaper_moves(b, p, x, y, KingDeltas)
    [] p.kind = "Q" -> slider_moves(b, p, x, y, RookDirs \cup BishopDirs)
    [] p.kind = "R" -> slider_moves(b, p, x, y, RookDirs)
    [] p.kind = "N" -> leaper_moves(b, p, x, y, KnightDeltas)
    [] p.kind = "P" -> Pawn_generate_moves(b, p, x, y)
    [] p.kind = "M" -> leaper_moves(b, p, x, y, KingDeltas \cup KnightDeltas)
    [] p.kind = "V" -> leaper_moves(b, p, x, y, KnightDeltas \cup CamelDeltas)
    [] p.kind = "Y" -> leaper_moves(b, p, x, y, AlibabaDeltas)
    [] p.kind = "D" -> Sergeant_generate_moves(b, p, x, y)
    [] p.kind = "H" -> leaper_moves(b, p, x, y, KnightDeltas)
                         \cup slider_moves(b, p, x, y, BishopDirs)
    [] OTHER -> {}

\* Board.collect_moves on an in-bounds square
collect_moves(b, x, y) ==
  IF at(b, x, y) = None THEN {} ELSE generate_moves(b, at(b, x, y), x, y)

\* ---------------------------------------------------------------- attack and check
\* Board.is_square_attacked: the index entries of by_color that still stand
\* on their recorded square and whose can_attack reaches (x, y).
is_square_attacked(b, x, y, by_color) ==
  \E k \in 1 .. Len(b.pieces[by_color]) :
    LET e == b.pieces[by_color][k] IN
      /\ at(b, e.x, e.y).id = e.p.id
      /\ can_attack(b, e.p, e.x, e.y, x, y)

\* Board.is_in_check: a tuple in the cache is wrapped into a one-element set.
is_in_check(b, color) ==
  \E s \in b.royal_pos[color].at :
    is_square_attacked(b, s[1], s[2], IF color = "w" THEN "b" ELSE "w")

\* Board.is_in_check with its checks of the cache: a bare pair of integers
\* is wrapped into a set of one square, any other value that is not a set
\* raises ValueError.
Board_is_in_check(b, color) ==
  IF b.royal_pos[color].tag \notin {"set", "tuple"}
  THEN [b |-> b, err |-> "ValueError", ret |-> FALSE]
  ELSE [b |-> b, err |-> "ok", ret |-> is_in_check(b, color)]

\* ---------------------------------------------------------------- apply_move
\* Board.compute_en_passant_target for a move flagged is_double_step
compute_en_passant_target(mv) ==
  <<(<<(mv.fx + mv.tx) \div 2, (mv.fy + mv.ty) \div 2>>), (<<mv.tx, mv.ty>>)>>

\* apply_move, step 1: the en-passant block (lines 392-405)
apply_en_passant(b, mv, piece) ==
  LET ep == b.en_passant_target IN
  IF ~mv.is_en_passant THEN Ok(b)
  ELSE IF ep = <<>> THEN Raise(b, "ValueError")
  ELSE IF ep[1] # <<mv.tx, mv.ty>> THEN Raise(b, "ValueError")
  ELSE LET cx == ep[2][1]
           cy == ep[2][2]
           victim == at(b, cx, cy)
       IN IF victim = None \/ victim.color = piece.color THEN Raise(b, "ValueError")
          ELSE clear(index_remove(b, cx, cy), cx, cy)

\* apply_capture without the same-colour test: the mover takes its own piece.
apply_capture_own(b, mv, piece) ==
  LET dst_piece == at(b, mv.tx, mv.ty) IN
  IF dst_piece # None /\ ~mv.is_en_passant
  THEN clear(index_remove(b, mv.tx, mv.ty), mv.tx, mv.ty)
  ELSE Ok(b)

\* apply_move, step 2: the ordinary capture (lines 408-415)
apply_capture(b, mv, piece) ==
  LET dst_piece == at(b, mv.tx, mv.ty) IN
  IF dst_piece # None /\ dst_piece.color = piece.color THEN Raise(b, "ValueError")
  ELSE IF dst_piece # None /\ ~mv.is_en_passant
       THEN clear(index_remove(b, mv.tx, mv.ty), mv.tx, mv.ty)
  ELSE Ok(b)

\* apply_move, step 4: promotion; an unknown kind keeps the moving piece.
apply_promotion(b, mv, piece) ==
  IF mv.promotion_to # "" /\ mv.promotion_to \in PIECE_REGISTRY
  THEN [set_piece(b, mv.tx, mv.ty, Piece(mv.promotion_to, piece.color, b.nid))
          EXCEPT !.nid = @ + 1]
  ELSE b

\* A royal-cache update that leaves None for the colour.
apply_royal_cache_none(b, mv) ==
  LET occupant == at(b, mv.tx, mv.ty) IN
  IF occupant.royal
  THEN [b EXCEPT !.royal_pos[occupant.color] = [tag |-> "none", at |-> {}]]
  ELSE b

\* apply_move, royal-cache update (lines 445-463): Board has no
\* _royal_cache_set, so the fallback stores the bare tuple (tx, ty).
apply_royal_cache(b, mv) ==
  LET occupant == at(b, mv.tx, mv.ty) IN
  IF occupant.royal
  THEN [b EXCEPT !.royal_pos[occupant.color] = [tag |-> "tuple", at |-> {<<mv.tx, mv.ty>>}]]
  ELSE b

\* apply_ep_reset that keeps an old target when the move is no double step.
apply_ep_keep(b, mv) ==
  [b EXCEPT !.en_passant_target =
     IF mv.is_double_step THEN compute_en_passant_target(mv) ELSE @]

\* apply_move, step 5: reset the en-passant target, set it after a double step.
apply_ep_reset(b, mv) ==
  [b EXCEPT !.en_passant_target =
     IF mv.is_double_step THEN compute_en_passant_target(mv) ELSE <<>>]

\* Board.apply_move
apply_move(b, mv) ==
  IF ~check_bounds(mv.fx, mv.fy) \/ ~check_bounds(mv.tx, mv.ty) THEN Raise(b, "IndexError")
  ELSE LET piece == at(b, mv.fx, mv.fy) IN
       IF piece = None THEN Raise(b, "ValueError")
       ELSE LET r1 == apply_en_passant(index_remove(b, mv.fx, mv.fy), mv, piece) IN
            IF r1.err # "ok" THEN r1
            ELSE LET r2 == apply_capture(r1.b, mv, piece) IN
                 IF r2.err # "ok" THEN r2
                 ELSE LET r3 == clear(r2.b, mv.fx, mv.fy) IN
                      IF r3.err # "ok" THEN r3
                      ELSE LET b4 == set_piece(r3.b, mv.tx, mv.ty, piece)
                               b5 == apply_promotion(b4, mv, piece)
                               b6 == index_add(b5, mv.tx, mv.ty)
                           IN Ok(apply_ep_reset(apply_royal_cache(b6, mv), mv))

\* ---------------------------------------------------------------- causes_self_check
\* The revert's "try: self._royal_pos[c].add(...) except Exception: pass"
royal_add_quiet(b, p, x, y) ==
  IF p # None /\ p.royal /\ b.royal_pos[p.color].tag = "set"
  THEN [b EXCEPT !.royal_pos[p.color].at = @ \cup {<<x, y>>}]
  ELSE b

\* One restore of the revert: put the remembered instance back, index it,
\* re-enter it in the royal cache.
restore(b, x, y, p) == royal_add_quiet(index_add(set_piece(b, x, y, p), x, y), p, x, y)

\* The finally block of causes_self_check (lines 196-260)
revert(b, mv, prev_ep, src_piece, dst_piece_before, ep_victim_pos, ep_victim_piece) ==
  LET r1 == clear([b EXCEPT !.en_passant_target = prev_ep], mv.tx, mv.ty) IN
  IF r1.err # "ok" THEN r1
  ELSE LET b2 == IF ~mv.is_en_passant /\ dst_piece_before # None
                 THEN restore(r1.b, mv.tx, mv.ty, dst_piece_before)
                 ELSE r1.b
           b3 == IF mv.is_en_passant /\ ep_victim_pos # <<>> /\ ep_victim_piece # None
                 THEN restore(b2, ep_victim_pos[1], ep_victim_pos[2], ep_victim_piece)
                 ELSE b2
       IN Ok(restore(b3, mv.fx, mv.fy, src_piece))

\* Board.causes_self_check: the board it leaves, the exception that leaves
\* it ("ok" for none) and, when it returns, the value returned.
causes_self_check(b, mv) ==
  IF mv.piece = None /\ ~check_bounds(mv.fx, mv.fy)
    THEN [b |-> b, err |-> "IndexError", ret |-> FALSE]
  ELSE IF mv.piece = None /\ at(b, mv.fx, mv.fy) = None
    THEN [b |-> b, err |-> "ValueError", ret |-> FALSE]
  ELSE IF ~check_bounds(mv.fx, mv.fy) \/ ~check_bounds(mv.tx, mv.ty)
    THEN [b |-> b, err |-> "IndexError", ret |-> FALSE]
  ELSE IF mv.is_en_passant
          /\ (b.en_passant_target = <<>> \/ b.en_passant_target[1] # <<mv.tx, mv.ty>>)
    THEN [b |-> b, err |-> "ValueError", ret |-> FALSE]
  ELSE
    LET side == IF mv.piece # None THEN mv.piece.color ELSE at(b, mv.fx, mv.fy).color
        prev_ep == b.en_passant_target
        src_piece == at(b, mv.fx, mv.fy)
        dst_piece_before == at(b, mv.tx, mv.ty)
        ep_victim_pos == IF mv.is_en_passant THEN prev_ep[2] ELSE <<>>
        ep_victim_piece == IF mv.is_en_passant THEN at(b, prev_ep[2][1], prev_ep[2][2])
                           ELSE None
        applied == apply_move(b, mv)
        in_check == IF applied.err = "ok" THEN is_in_check(applied.b, side) ELSE TRUE
        undone == revert(applied.b, mv, prev_ep, src_piece, dst_piece_before,
                         ep_victim_pos, ep_victim_piece)
    IN [b |-> undone.b,
        err |-> IF undone.err # "ok" THEN undone.err ELSE applied.err,
        ret |-> in_check]

\* ---------------------------------------------------------------- legal moves
Opponent(color) == IF color = "w" THEN "b" ELSE "w"

\* Board.legal_moves_for: the exception it leaves ("ok" for none) and the moves
\* it returns.  An empty royal cache returns the empty list.  A cache that
\* apply_move left as a tuple makes "kx, ky = next(iter(rps))" unpack an int.
\* The loops "for (ax, ay) in opp_pos" and "for (x, y) in list(my_pos)" unpack
\* index entries (piece, x, y) into two names, so the first entry of either
\* index raises before any move is generated or simulated; the board is never
\* touched.
legal_moves_for(b, color) ==
  LET rps == b.royal_pos[color] IN
  IF rps.at = {} THEN [b |-> b, err |-> "ok", ret |-> {}]
  ELSE IF rps.tag = "tuple" THEN [b |-> b, err |-> "TypeError", ret |-> {}]
  ELSE IF b.pieces[Opponent(color)] # <<>> THEN [b |-> b, err |-> "ValueError", ret |-> {}]
  ELSE IF b.pieces[color] # <<>> THEN [b |-> b, err |-> "ValueError", ret |-> {}]
  ELSE [b |-> b, err |-> "ok", ret |-> {}]

\* Board.is_checkmated
is_checkmated(b, color) ==
  IF ~is_in_check(b, color) THEN [b |-> b, err |-> "ok", ret |-> FALSE]
  ELSE LET r == legal_moves_for(b, color) IN
       [b |-> r.b, err |-> r.err, ret |-> r.err = "ok" /\ r.ret = {}]

\* ---------------------------------------------------------------- Game
\* Code points of the kind letters and of the colour letters, for sorting.
KindOrd(k) ==
  CASE k = "H" -> 72 [] k = "K" -> 75 [] k = "M" -> 77 [] k = "N" -> 78 [] k = "P" -> 80
    [] k = "Q" -> 81 [] k = "R" -> 82 [] k = "V" -> 86 [] k = "Y" -> 89 [] k = "D" -> 916
    [] OTHER -> 0
ColorOrd(c) == IF c = "b" THEN 98 ELSE 119

\* One item of the key: (kind, colour, royal as 0/1, x, y)
Item(p, x, y) == <<p.kind, p.color, IF p.royal THEN 1 ELSE 0, x, y>>

\* The sort key of position_key: (colour, kind, x, y, royal), compared as tuples.
SortKey(t) == <<ColorOrd(t[2]), KindOrd(t[1]), t[4], t[5], t[3]>>

RECURSIVE LexLess(_, _)
LexLess(u, v) ==
  IF u = <<>> \/ v = <<>> THEN FALSE
  ELSE IF Head(u) # Head(v) THEN Head(u) < Head(v)
  ELSE LexLess(Tail(u), Tail(v))

\* list.sort(key=...): a stable insertion of each item in turn.
RECURSIVE Insert(_, _)
Insert(sorted, t) ==
  IF sorted = <<>> THEN <<t>>
  ELSE IF LexLess(SortKey(t), SortKey(Head(sorted))) THEN <<t>> \o sorted
  ELSE <<Head(sorted)>> \o Insert(Tail(sorted), t)

RECURSIVE SortItems(_)
SortItems(items) ==
  IF items = <<>> THEN <<>>
  ELSE Insert(SortItems(SubSeq(items, 1, Len(items) - 1)), items[Len(items)])

\* The fallback of position_key: a row-major scan of the grid.
RECURSIVE ScanGrid(_, _)
ScanGrid(b, n) ==
  IF n = BoardH * BoardW THEN <<>>
  ELSE LET x == n \div BoardW
           y == n % BoardW
       IN (IF at(b, x, y) # None THEN <<Item(at(b, x, y), x, y)>> ELSE <<>>)
            \o ScanGrid(b, n + 1)

\* position_key(board, turn): the string is modelled by its three parts, the
\* pieces part being the sorted list of items; "~" is the empty sequence.
position_key(b, t) ==
  LET entries == b.pieces["w"] \o b.pieces["b"]
      indexed == [k \in 1 .. Len(entries) |-> Item(entries[k].p, entries[k].x, entries[k].y)]
      items == IF indexed # <<>> THEN indexed ELSE ScanGrid(b, 0)
  IN [t |-> t,
      p |-> SortItems(items),
      ep |-> IF b.en_passant_target # <<>> THEN b.en_passant_target[1] ELSE <<>>]

\* self.position_counts[k] = self.position_counts.get(k, 0) + 1
count_key(counts, k) ==
  IF k \in DOMAIN counts THEN [counts EXCEPT ![k] = @ + 1]
  ELSE [j \in DOMAIN counts \cup {k} |-> IF j = k THEN 1 ELSE counts[j]]

\* Game.__init__(board, turn)
Game0(b, t) ==
  [turn |-> t, halfmove_clock |-> 0,
   position_counts |-> count_key([j \in {} |-> 0], position_key(b, t))]

G == [turn |-> turn, halfmove_clock |-> halfmove_clock, position_counts |-> position_counts]

\* Game.play with the pawn-like set written with the catalogue key of the
\* sergeant instead of the kind its pieces carry.
play_key(b, g, mv) ==
  IF ~check_bounds(mv.tx, mv.ty) THEN [b |-> b, g |-> g, err |-> "IndexError"]
  ELSE LET dst == at(b, mv.tx, mv.ty) IN
       IF ~mv.is_en_passant /\ dst # None /\ mv.piece = None
       THEN [b |-> b, g |-> g, err |-> "AttributeError"]
       ELSE LET did_capture == mv.is_en_passant \/ (dst # None /\ dst.color # mv.piece.color)
                applied == apply_move(b, mv)
                is_pawn_like == mv.piece.kind \in {"P", "d"}
                t2 == IF g.turn = "w" THEN "b" ELSE "w"
            IN IF applied.err # "ok" THEN [b |-> applied.b, g |-> g, err |-> applied.err]
               ELSE [b |-> applied.b,
                     g |-> [turn |-> t2,
                            halfmove_clock |-> IF did_capture \/ is_pawn_like THEN 0
                                               ELSE g.halfmove_clock + 1,
                            position_counts |-> count_key(g.position_counts,
                                                          position_key(applied.b, t2))],
                     err |-> "ok"]

\* Game.play that hands the turn over before the move is applied.
play_eager(b, g, mv) ==
  IF ~check_bounds(mv.tx, mv.ty) THEN [b |-> b, g |-> g, err |-> "IndexError"]
  ELSE LET dst == at(b, mv.tx, mv.ty) IN
       IF ~mv.is_en_passant /\ dst # None /\ mv.piece = None
       THEN [b |-> b, g |-> g, err |-> "AttributeError"]
       ELSE LET did_capture == mv.is_en_passant \/ (dst # None /\ dst.color # mv.piece.color)
                applied == apply_move(b, mv)
                is_pawn_like == mv.piece.kind \in {"P", "D"}
                t2 == IF g.turn = "w" THEN "b" ELSE "w"
            IN IF applied.err # "ok"
               THEN [b |-> applied.b, g |-> [g EXCEPT !.turn = t2], err |-> applied.err]
               ELSE [b |-> applied.b,
                     g |-> [turn |-> t2,
                            halfmove_clock |-> IF did_capture \/ is_pawn_like THEN 0
                                               ELSE g.halfmove_clock + 1,
                            position_counts |-> count_key(g.position_counts,
                                                          position_key(applied.b, t2))],
                     err |-> "ok"]

\* Game.play: the board and the game it leaves, and the exception if any.
play(b, g, mv) ==
  IF ~check_bounds(mv.tx, mv.ty) THEN [b |-> b, g |-> g, err |-> "IndexError"]
  ELSE LET dst == at(b, mv.tx, mv.ty) IN
       IF ~mv.is_en_passant /\ dst # None /\ mv.piece = None
       THEN [b |-> b, g |-> g, err |-> "AttributeError"]
       ELSE LET did_capture == mv.is_en_passant \/ (dst # None /\ dst.color # mv.piece.color)
                applied == apply_move(b, mv)
                is_pawn_like == mv.piece.kind \in {"P", "D"}
                t2 == IF g.turn = "w" THEN "b" ELSE "w"
            IN IF applied.err # "ok" THEN [b |-> applied.b, g |-> g, err |-> applied.err]
               ELSE [b |-> applied.b,
                     g |-> [turn |-> t2,
                            halfmove_clock |-> IF did_capture \/ is_pawn_like THEN 0
                                               ELSE g.halfmove_clock + 1,
                            position_counts |-> count_key(g.position_counts,
                                                          position_key(applied.b, t2))],
                     err |-> "ok"]

\* Game.result_if_over with the 50-move draw one ply late.
result_if_over_late(b, g) ==
  IF \E k \in DOMAIN g.position_counts : g.position_counts[k] >= 3
  THEN [b |-> b, err |-> "ok", res |-> "draw_threefold"]
  ELSE IF g.halfmove_clock > 100
  THEN [b |-> b, err |-> "ok", res |-> "draw_50m"]
  ELSE LET cm == is_checkmated(b, g.turn) IN
       IF cm.err # "ok" THEN [b |-> cm.b, err |-> cm.err, res |-> "none"]
       ELSE IF cm.ret
       THEN [b |-> cm.b, err |-> "ok",
             res |-> IF g.turn = "w" THEN "checkmate_b" ELSE "checkmate_w"]
       ELSE [b |-> cm.b, err |-> "ok", res |-> "none"]

\* Game.result_if_over with the threefold draw tied to a count of exactly 3.
result_if_over_exact(b, g) ==
  IF \E k \in DOMAIN g.position_counts : g.position_counts[k] = 3
  THEN [b |-> b, err |-> "ok", res |-> "draw_threefold"]
  ELSE IF g.halfmove_clock >= 100
  THEN [b |-> b, err |-> "ok", res |-> "draw_50m"]
  ELSE LET cm == is_checkmated(b, g.turn) IN
       IF cm.err # "ok" THEN [b |-> cm.b, err |-> cm.err, res |-> "none"]
       ELSE IF cm.ret
       THEN [b |-> cm.b, err |-> "ok",
             res |-> IF g.turn = "w" THEN "checkmate_b" ELSE "checkmate_w"]
       ELSE [b |-> cm.b, err |-> "ok", res |-> "none"]

\* Game.result_if_over: its outcome ("none" for None) and the exception if
\* any.  Board has no result_if_over and no is_stalemated, so after the two
\* draws only is_checkmated is asked.
result_if_over(b, g) ==
  IF \E k \in DOMAIN g.position_counts : g.position_counts[k] >= 3
  THEN [b |-> b, err |-> "ok", res |-> "draw_threefold"]
  ELSE IF g.halfmove_clock >= 100
  THEN [b |-> b, err |-> "ok", res |-> "draw_50m"]
  ELSE LET cm == is_checkmated(b, g.turn) IN
       IF cm.err # "ok" THEN [b |-> cm.b, err |-> cm.err, res |-> "none"]
       ELSE IF cm.ret
       THEN [b |-> cm.b, err |-> "ok",
             res |-> IF g.turn = "w" THEN "checkmate_b" ELSE "checkmate_w"]
       ELSE [b |-> cm.b, err |-> "ok", res |-> "none"]

Occupied(b) == {s \in Squares : b.grid[s] # None}

\* A position as the rules of repetition see it: the side to move, the
\* occupant of every square with its kind, colour and royal flag, and the
\* en-passant target square.
Position(b, t) ==
  [t |-> t,
   p |-> {<<s, b.grid[s].kind, b.grid[s].color, b.grid[s].royal>> : s \in Occupied(b)},
   ep |-> IF b.en_passant_target # <<>> THEN b.en_passant_target[1] ELSE <<>>]

\* ---------------------------------------------------------------- setups
\* The squares and kinds that put, clear and set_royal are called with
\* ("B" is a kind the catalogue does not have).
PutSquares == {<<2, 1>>, <<5, 1>>}
PutKinds == {"N", "B"}

\* A setup call, as the __main__ blocks of board.py and game.py make them.
PutCall(x, y, kind, color) == [op |-> "put", x |-> x, y |-> y, kind |-> kind, color |-> color]
RoyalCall(x, y) == [op |-> "set_royal", x |-> x, y |-> y, kind |-> "", color |-> ""]

RECURSIVE Setup(_, _)
Setup(b, calls) ==
  IF calls = <<>> THEN b
  ELSE LET c == Head(calls)
           r == IF c.op = "put" THEN put(b, c.x, c.y, c.kind, c.color)
                ELSE set_royal(b, c.x, c.y, TRUE)
       IN Setup(r.b, Tail(calls))

\* The boards the runs start from: the empty board, the mock test of
\* board.py (a cornered royal king, a queen and her defender), a pawn and a
\* sergeant facing an enemy pawn, a royal pawn facing an enemy pawn, a pawn
\* before its promotion row, two royals.
Setups ==
  { <<>>,
    <<PutCall(0, 0, "K", "w"), PutCall(1, 1, "Q", "b"), PutCall(2, 2, "K", "b"),
      RoyalCall(0, 0)>>,
    <<PutCall(1, 1, "P", "b"), PutCall(3, 0, "P", "w"), PutCall(1, 0, "d", "b")>>,
    <<PutCall(1, 1, "P", "b"), PutCall(3, 0, "P", "w"), RoyalCall(1, 1)>>,
    <<PutCall(2, 0, "P", "w"), PutCall(1, 1, "N", "b")>>,
    <<PutCall(5, 0, "K", "w"), PutCall(5, 2, "K", "w"), PutCall(0, 1, "R", "b"),
      RoyalCall(5, 0), RoyalCall(5, 2)>> }

\* The longest run of a game.
MaxPlies == 102

\* The track of a long game: the king walks the rows from the third to the
\* last and back, square by square, and the rook steps round the four
\* squares of the near corner each time the king reaches an end of the track.
TrackLen == (BoardH - 2) * BoardW
Track(i) ==
  LET r == (i - 1) \div BoardW
      c == (i - 1) % BoardW
  IN <<2 + r, IF r % 2 = 0 THEN c ELSE BoardW - 1 - c>>
Ring == <<<<0, 0>>, <<0, 1>>, <<1, 1>>, <<1, 0>>>>
Posts == {<<4, 1>>, <<6, 2>>}

\* The boards long games start from: the king and the rook at the start of
\* their tracks with a pawn that has one step left; a knight on one of its
\* two posts beside a general and an alibaba-rider; the mock test of
\* board.py; a cornered royal king that is not attacked and cannot move.
GameSetups ==
  { <<PutCall(2, 0, "K", "w"), PutCall(0, 0, "R", "w"), PutCall(1, 2, "P", "w")>>,
    <<PutCall(4, 1, "N", "w"), PutCall(0, 0, "M", "w"), PutCall(0, 1, "Y", "w")>>,
    <<PutCall(0, 0, "K", "w"), PutCall(1, 1, "Q", "b"), PutCall(2, 2, "K", "b"),
      RoyalCall(0, 0)>>,
    <<PutCall(0, 0, "K", "w"), PutCall(2, 1, "Q", "b"), RoyalCall(0, 0)>> }

\* Boards with a pawn one step before its promotion row: a white pawn beside
\* a black knight; a white pawn behind a black pawn, with a white knight and
\* a white alibaba-rider in front of it.
PromotionSetups ==
  { <<PutCall(2, 0, "P", "w"), PutCall(1, 1, "N", "b")>>,
    <<PutCall(1, 0, "N", "w"), PutCall(2, 0, "Y", "w"), PutCall(0, 1, "P", "b"),
      PutCall(2, 1, "P", "w")>> }

\* ---------------------------------------------------------------- inputs
\* Every move collect_moves returns on the current board.
Generated(b) == UNION {collect_moves(b, s[1], s[2]) : s \in Occupied(b)}

\* A one-square step from s onto a neighbouring piece of the same colour.
OntoOwn(b, s) ==
  {Move(s[1], s[2], s[1] + d[1], s[2] + d[2], b.grid[s], FALSE, FALSE, "") :
     d \in {e \in KingDeltas : /\ check_bounds(s[1] + e[1], s[2] + e[2])
                               /\ at(b, s[1] + e[1], s[2] + e[2]).color = b.grid[s].color}}

\* Moves a caller builds itself: a pawn's or sergeant's generated move with
\* the en-passant flag set, a generated two-row move with the double-step
\* flag set, a promotion to a kind the catalogue lacks, a step onto a
\* neighbouring piece of the mover's colour, a move from an empty square.
Altered(b) ==
  {[g EXCEPT !.is_en_passant = TRUE] :
     g \in {h \in Generated(b) : h.piece.kind \in {"P", "D"} /\ h.promotion_to = ""}}
    \cup {[g EXCEPT !.is_double_step = TRUE] :
            g \in {h \in Generated(b) : Abs(h.tx - h.fx) = 2 /\ Abs(h.ty - h.fy) \in {0, 2}}}
    \cup {[g EXCEPT !.promotion_to = "B"] : g \in {h \in Generated(b) : h.promotion_to = "Q"}}
    \cup UNION {OntoOwn(b, s) : s \in Occupied(b)}
    \cup {Move(s[1], s[2], s[1] + 1, s[2], None, FALSE, FALSE, "") :
            s \in {t \in PutSquares : b.grid[t] = None}}

MoveInputs(b) == Generated(b) \cup Altered(b)

\* The moves of a long game: the next step of the king or the rook on their
\* tracks, a knight's move from one post to the other, a pawn's step.
OnTrack(b) ==
  LET ks == {i \in 1 .. TrackLen : b.grid[Track(i)] # None /\ b.grid[Track(i)].kind = "K"}
      rs == {j \in 1 .. 4 : b.grid[Ring[j]] # None /\ b.grid[Ring[j]].kind = "R"}
  IN UNION {
       {IF (j % 2 = 1 /\ i < TrackLen) THEN <<Track(i), Track(i + 1)>>
        ELSE IF (j % 2 = 0 /\ i > 1) THEN <<Track(i), Track(i - 1)>>
        ELSE <<Ring[j], Ring[(j % 4) + 1]>>} : <<i, j>> \in ks \X rs }
GameInputs(b) ==
  {g \in Generated(b) :
     \/ <<<<g.fx, g.fy>>, <<g.tx, g.ty>>>> \in OnTrack(b)
     \/ g.piece.kind = "N" /\ <<g.fx, g.fy>> \in Posts /\ <<g.tx, g.ty>> \in Posts
     \/ g.piece.kind = "P"}

\* The rejected moves of a long game: a step of a general or an
\* alibaba-rider onto a neighbouring piece of its colour.
RejectedInputs(b) ==
  UNION {OntoOwn(b, s) : s \in {t \in Occupied(b) : b.grid[t].kind \in {"M", "Y"}}}

\* ---------------------------------------------------------------- actions
SetBoard(b) ==
  /\ grid' = b.grid
  /\ pieces' = b.pieces
  /\ royal_pos' = b.royal_pos
  /\ en_passant_target' = b.en_passant_target
  /\ nid' = b.nid

Call(op, mv, x, y, kind, color, flag, err, ret) ==
  [op |-> op, mv |-> mv, x |-> x, y |-> y, kind |-> kind, color |-> color,
   flag |-> flag, err |-> err, ret |-> ret]

InitOn(scripts) ==
  \E calls \in scripts :
    LET b == Setup(Board0, calls)
        g == Game0(b, "w")
    IN /\ grid = b.grid
       /\ pieces = b.pieces
       /\ royal_pos = b.royal_pos
       /\ en_passant_target = b.en_passant_target
       /\ nid = b.nid
       /\ turn = g.turn
       /\ halfmove_clock = g.halfmove_clock
       /\ position_counts = g.position_counts
       /\ seen = count_key([j \in {} |-> 0], Position(b, g.turn))
       /\ last = Call("init", NoMove, 0, 0, "", "", FALSE, "ok", FALSE)
       /\ ops = 0

Init == InitOn(Setups)

\* board.put(x, y, kind, color)
Put(x, y, kind, color) ==
  /\ ops < MaxOps
  /\ LET r == put(B, x, y, kind, color) IN
       /\ SetBoard(r.b)
       /\ last' = Call("put", NoMove, x, y, kind, color, FALSE, r.err, FALSE)
  /\ ops' = ops + 1
  /\ UNCHANGED gameVars

\* board.clear(x, y)
Clear(x, y) ==
  /\ ops < MaxOps
  /\ LET r == clear(B, x, y) IN
       /\ SetBoard(r.b)
       /\ last' = Call("clear", NoMove, x, y, "", "", FALSE, r.err, FALSE)
  /\ ops' = ops + 1
  /\ UNCHANGED gameVars

\* board.set_royal(x, y, flag)
SetRoyal(x, y, flag) ==
  /\ ops < MaxOps
  /\ LET r == set_royal(B, x, y, flag) IN
       /\ SetBoard(r.b)
       /\ last' = Call("set_royal", NoMove, x, y, "", "", flag, r.err, FALSE)
  /\ ops' = ops + 1
  /\ UNCHANGED gameVars

\* board.apply_move(mv)
ApplyMove(mv) ==
  /\ ops < MaxOps
  /\ LET r == apply_move(B, mv) IN
       /\ SetBoard(r.b)
       /\ last' = Call("apply_move", mv, 0, 0, "", "", FALSE, r.err, FALSE)
  /\ ops' = ops + 1
  /\ UNCHANGED gameVars

\* board.causes_self_check(mv)
CausesSelfCheck(mv) ==
  /\ ops < MaxOps
  /\ LET r == causes_self_check(B, mv) IN
       /\ SetBoard(r.b)
       /\ last' = Call("causes_self_check", mv, 0, 0, "", "", FALSE, r.err, r.ret)
  /\ ops' = ops + 1
  /\ UNCHANGED gameVars

\* game.play(mv); the history counts the position a successful move leaves.
PlayCall(mv) ==
  /\ LET r == play(B, G, mv) IN
       /\ SetBoard(r.b)
       /\ turn' = r.g.turn
       /\ halfmove_clock' = r.g.halfmove_clock
       /\ position_counts' = r.g.position_counts
       /\ seen' = IF r.err = "ok" THEN count_key(seen, Position(r.b, r.g.turn)) ELSE seen
       /\ last' = Call("play", mv, 0, 0, "", "", FALSE, r.err, FALSE)
  /\ ops' = ops + 1

Play(mv) ==
  /\ ops < MaxOps
  /\ PlayCall(mv)

\* The record of a query: a call with its answer (a truth value in ret,
\* a list or a result name in res).
Answer(op, color, err, ret, res) ==
  [op |-> op, mv |-> NoMove, x |-> 0, y |-> 0, kind |-> "", color |-> color,
   flag |-> FALSE, err |-> err, ret |-> ret, res |-> res]

\* board.is_in_check(color)
IsInCheck(color) ==
  /\ ops < MaxOps
  /\ LET r == Board_is_in_check(B, color) IN
       last' = Answer("is_in_check", color, r.err, r.ret, {})
  /\ ops' = ops + 1
  /\ UNCHANGED <<boardVars, gameVars>>

\* board.legal_moves_for(color)
LegalMovesFor(color) ==
  /\ ops < MaxOps
  /\ LET r == legal_moves_for(B, color) IN
       /\ SetBoard(r.b)
       /\ last' = Answer("legal_moves_for", color, r.err, r.ret # {}, r.ret)
  /\ ops' = ops + 1
  /\ UNCHANGED gameVars

\* board.is_checkmated(color)
IsCheckmated(color) ==
  /\ ops < MaxOps
  /\ LET r == is_checkmated(B, color) IN
       /\ SetBoard(r.b)
       /\ last' = Answer("is_checkmated", color, r.err, r.ret, {})
  /\ ops' = ops + 1
  /\ UNCHANGED gameVars

\* game.result_if_over()
ResultIfOver ==
  /\ LET r == result_if_over(B, G) IN
       /\ SetBoard(r.b)
       /\ last' = Answer("result_if_over", turn, r.err, r.res # "none", r.res)
  /\ ops' = ops + 1
  /\ UNCHANGED gameVars

Touched == PutSquares \cup Occupied(B)

\* Every Board operation, on the boards of Setups.
Next ==
  /\ ops < MaxOps
  /\ \/ \E s \in PutSquares, kind \in PutKinds, color \in Colors : Put(s[1], s[2], kind, color)
     \/ \E s \in Touched : Clear(s[1], s[2])
     \/ \E s \in Touched, flag \in BOOLEAN : SetRoyal(s[1], s[2], flag)
     \/ \E mv \in MoveInputs(B) : ApplyMove(mv)
     \/ \E mv \in MoveInputs(B) : CausesSelfCheck(mv)

Spec == Init /\ [][Next]_vars

\* The mutators only: put, clear, set_royal and apply_move.
NextMut ==
  /\ ops < MaxOps
  /\ \/ \E s \in PutSquares, kind \in PutKinds, color \in Colors : Put(s[1], s[2], kind, color)
     \/ \E s \in Touched : Clear(s[1], s[2])
     \/ \E s \in Touched, flag \in BOOLEAN : SetRoyal(s[1], s[2], flag)
     \/ \E mv \in MoveInputs(B) : ApplyMove(mv)

SpecMut == Init /\ [][NextMut]_vars

\* put, clear and apply_move on boards that were built by put alone.
InitPlace == Init /\ \A s \in Squares : ~grid[s].royal

NextPlace ==
  /\ ops < MaxOps
  /\ \/ \E s \in PutSquares, kind \in PutKinds, color \in Colors : Put(s[1], s[2], kind, color)
     \/ \E s \in Touched : Clear(s[1], s[2])
     \/ \E mv \in MoveInputs(B) : ApplyMove(mv)

SpecPlace == InitPlace /\ [][NextPlace]_vars

\* apply_move alone, on the boards of PromotionSetups.
InitPromotion == InitOn(PromotionSetups)

NextPromotion ==
  /\ ops < MaxOps
  /\ \E mv \in MoveInputs(B) : ApplyMove(mv)

SpecPromotion == InitPromotion /\ [][NextPromotion]_vars

\* Positions reached by set_royal and apply_move, and the queries on them.
NextQuery ==
  /\ ops < MaxOps
  /\ \/ \E s \in Touched, flag \in BOOLEAN : SetRoyal(s[1], s[2], flag)
     \/ \E mv \in MoveInputs(B) : ApplyMove(mv)
     \/ \E color \in Colors : IsInCheck(color)
     \/ \E color \in Colors : LegalMovesFor(color)
     \/ \E color \in Colors : IsCheckmated(color)

SpecQuery == Init /\ [][NextQuery]_vars

\* A game played through Game.play.
NextGame ==
  /\ ops < MaxOps
  /\ \E mv \in MoveInputs(B) : Play(mv)

SpecGame == Init /\ [][NextGame]_vars

\* ---------------------------------------------------------------- helpers of the claims
\* The index of colour c as a set of entries (piece identity, x, y).
EntrySet(b, c) ==
  {<<b.pieces[c][k].p.id, b.pieces[c][k].x, b.pieces[c][k].y>> : k \in 1 .. Len(b.pieces[c])}

\* Exactly one entry per piece of colour c on the grid, and no other entry.
IndexConsistent(b) ==
  \A c \in Colors :
    /\ \A k \in 1 .. Len(b.pieces[c]) :
         LET e == b.pieces[c][k] IN
           b.grid[<<e.x, e.y>>].id = e.p.id /\ b.grid[<<e.x, e.y>>].color = c
    /\ \A s \in Squares :
         (b.grid[s] # None /\ b.grid[s].color = c) =>
           Cardinality({k \in 1 .. Len(b.pieces[c]) :
                          /\ b.pieces[c][k].p.id = b.grid[s].id
                          /\ <<b.pieces[c][k].x, b.pieces[c][k].y>> = s}) = 1

\* The squares that hold a royal piece of colour c, read off the grid.
RoyalSquares(b, c) == {s \in Squares : b.grid[s] # None /\ b.grid[s].color = c /\ b.grid[s].royal}

RoyalConsistent(b) ==
  \A c \in Colors : b.royal_pos[c].tag = "set" /\ b.royal_pos[c].at = RoyalSquares(b, c)

\* Grid, index (as a set of entries), royal cache and en-passant target agree.
SameBoard(b1, b2) ==
  /\ b1.grid = b2.grid
  /\ \A c \in Colors : EntrySet(b1, c) = EntrySet(b2, c)
  /\ b1.royal_pos = b2.royal_pos
  /\ b1.en_passant_target = b2.en_passant_target

\* ---------------------------------------------------------------- claims
\* C1: after any sequence of put, clear and apply_move calls on an initially
\* empty board, the piece index of each colour holds exactly one entry for
\* every piece of that colour on the grid and no other entry.
C1_IndexConsistency == IndexConsistent(B)

\* C2: after any sequence of put, clear, set_royal and apply_move calls, the
\* royal cache of each colour is a set of coordinates, equal to the squares
\* that hold a royal piece of that colour.
C2_RoyalCacheConsistency == RoyalConsistent(B)

\* The board after the step.
BoardAfter ==
  [grid |-> grid', pieces |-> pieces', royal_pos |-> royal_pos',
   en_passant_target |-> en_passant_target', nid |-> nid']

\* The step is a call of op.
Called(op) == ops' = ops + 1 /\ last'.op = op

\* Some royal square of colour side is attacked by a piece of the other colour
\* (read off the grid alone).
RoyalAttacked(b, side) ==
  \E r \in RoyalSquares(b, side) :
    \E a \in Squares :
      /\ b.grid[a] # None
      /\ b.grid[a].color # side
      /\ can_attack(b, b.grid[a], a[1], a[2], r[1], r[2])

\* C3: for every move mv returned by collect_moves on the current board, when
\* causes_self_check(mv) returns, the occupant of every square, the piece
\* index of each colour (as a set of entries), the royal cache and the
\* en-passant target are what they were before the call.
C3_SimulationLeavesNoTrace ==
  [][(/\ Called("causes_self_check")
      /\ last'.mv \in Generated(B)
      /\ IndexConsistent(B) /\ RoyalConsistent(B)
      /\ last'.err = "ok")
     => SameBoard(B, BoardAfter)]_vars

\* C4: when the simulated application inside causes_self_check fails, the
\* grid, the piece index, the royal cache and the en-passant target are still
\* restored to what they were before the call.
C4_RevertOnFailure ==
  [][(/\ Called("causes_self_check")
      /\ IndexConsistent(B) /\ RoyalConsistent(B)
      /\ apply_move(B, last'.mv).err = "ValueError")
     => SameBoard(B, BoardAfter)]_vars

\* C5: causes_self_check(mv) returns true exactly when, in the board obtained
\* by applying mv, some royal square of the mover's colour is attacked by a
\* piece of the other colour, and false otherwise.
C5_SelfCheckMeaning ==
  [][(/\ Called("causes_self_check")
      /\ last'.mv \in Generated(B)
      /\ IndexConsistent(B) /\ RoyalConsistent(B)
      /\ apply_move(B, last'.mv).err = "ok")
     => ((last'.err = "ok" /\ last'.ret)
           <=> RoyalAttacked(apply_move(B, last'.mv).b, last'.mv.piece.color))]_vars

\* C6: an apply_move call that fails leaves the grid, the piece index, the
\* royal cache and the en-passant target exactly as they were before the call.
C6_FailedMoveChangesNothing ==
  [][(/\ Called("apply_move")
      /\ IndexConsistent(B) /\ RoyalConsistent(B)
      /\ last'.err # "ok")
     => SameBoard(B, BoardAfter)]_vars

\* The cases in which apply_move must refuse mv on board b.
Refused(b, mv) ==
  LET src == at(b, mv.fx, mv.fy)
      dst == at(b, mv.tx, mv.ty)
      ep == b.en_passant_target
  IN \/ src = None
     \/ dst # None /\ dst.color = src.color
     \/ mv.is_en_passant /\ (ep = <<>> \/ ep[1] # <<mv.tx, mv.ty>>)
     \/ /\ mv.is_en_passant /\ ep # <<>> /\ ep[1] = <<mv.tx, mv.ty>>
        /\ (b.grid[ep[2]] = None \/ b.grid[ep[2]].color = src.color)

\* C7: apply_move fails with an error, and the mover does not move, when the
\* source square is empty, when the destination holds a piece of the mover's
\* colour, when the move is flagged en passant without a recorded target or
\* with a destination other than the recorded capture square, and when the
\* recorded victim square is empty or holds a piece of the mover's colour.
C7_IllegalMovesRefused ==
  [][(/\ Called("apply_move")
      /\ check_bounds(last'.mv.fx, last'.mv.fy) /\ check_bounds(last'.mv.tx, last'.mv.ty)
      /\ Refused(B, last'.mv))
     => /\ last'.err # "ok"
        /\ grid'[<<last'.mv.fx, last'.mv.fy>>] = grid[<<last'.mv.fx, last'.mv.fy>>]
        /\ grid'[<<last'.mv.tx, last'.mv.ty>>] = grid[<<last'.mv.tx, last'.mv.ty>>]]_vars

\* An en-passant capture was refused although the recorded capture square is
\* its (empty) destination: the victim square holds no opposing piece.
C7_Witness ==
  /\ last.op = "apply_move" /\ last.err = "ValueError"
  /\ last.mv.is_en_passant
  /\ en_passant_target # <<>> /\ en_passant_target[1] = <<last.mv.tx, last.mv.ty>>
  /\ grid[<<last.mv.fx, last.mv.fy>>] # None
  /\ grid[<<last.mv.tx, last.mv.ty>>] = None

\* C8: after every successful apply_move the en-passant target is empty,
\* unless the move is flagged as a double step; then it is the pair (midpoint
\* of source and destination, destination). So a target never survives the
\* next applied move that is not itself a double step.
C8_EnPassantTargetLifetime ==
  [][(Called("apply_move") /\ last'.err = "ok")
     => IF last'.mv.is_double_step
        THEN /\ Len(en_passant_target') = 2
             /\ 2 * en_passant_target'[1][1] = last'.mv.fx + last'.mv.tx
             /\ 2 * en_passant_target'[1][2] = last'.mv.fy + last'.mv.ty
             /\ en_passant_target'[2] = <<last'.mv.tx, last'.mv.ty>>
        ELSE en_passant_target' = <<>>]_vars

\* A black pawn has double-stepped from (1,1) to (3,1) and (2,1) is recorded.
C8_Witness ==
  /\ last.op = "apply_move" /\ last.err = "ok" /\ last.mv.is_double_step
  /\ last.mv.piece.kind = "P"
  /\ en_passant_target = <<<<2, 1>>, <<3, 1>>>>

\* mv is a double step straight ahead that collect_moves gave a pawn or sergeant.
StraightDouble(mv) ==
  /\ mv.is_double_step /\ ~mv.is_en_passant
  /\ mv.piece.kind \in {"P", "D"}
  /\ mv.ty = mv.fy /\ Abs(mv.tx - mv.fx) = 2

\* The squares beside <<x, y>> on its row.
Beside(x, y) == {s \in Squares : s[1] = x /\ Abs(s[2] - y) = 1}

\* C9: after a pawn or sergeant has double-stepped next to an opposing pawn,
\* that pawn's generated moves include the en-passant capture onto the
\* jumped-over square; playing it leaves the capturing pawn on that square,
\* its source empty and the double-stepped piece gone from its square and from
\* its colour's index; the halfmove clock is 0 after either move.
C9_EnPassantCapture ==
  [][/\ (/\ Called("play") /\ last'.err = "ok"
         /\ last'.mv \in Generated(B) /\ StraightDouble(last'.mv))
        => /\ halfmove_clock' = 0
           /\ \A n \in Beside(last'.mv.tx, last'.mv.ty) :
                (grid'[n].kind = "P" /\ grid'[n].color # last'.mv.piece.color)
                  => \E m \in collect_moves(BoardAfter, n[1], n[2]) :
                       /\ m.is_en_passant
                       /\ 2 * m.tx = last'.mv.fx + last'.mv.tx /\ m.ty = last'.mv.ty
     /\ (/\ Called("play")
         /\ last.op = "play" /\ last.err = "ok" /\ StraightDouble(last.mv)
         /\ last'.mv \in Generated(B)
         /\ last'.mv.is_en_passant /\ last'.mv.piece.kind = "P")
        => /\ last'.err = "ok"
           /\ grid'[<<last'.mv.tx, last'.mv.ty>>].id = last'.mv.piece.id
           /\ grid'[<<last'.mv.fx, last'.mv.fy>>] = None
           /\ grid'[<<last.mv.tx, last.mv.ty>>] = None
           /\ \A e \in EntrySet(BoardAfter, last.mv.piece.color) : e[1] # last.mv.piece.id
           /\ halfmove_clock' = 0]_vars

\* The entries of colour c's index that name square s.
EntriesAt(b, c, s) == {k \in 1 .. Len(b.pieces[c]) : <<b.pieces[c][k].x, b.pieces[c][k].y>> = s}

\* C10: after a successful apply_move whose promotion_to names a catalogued
\* kind, the destination holds a new piece of that kind and of the mover's
\* colour, and the index of that colour has exactly one entry for the
\* destination, the promoted piece, and no entry for the original piece.
C10_Promotion ==
  [][(/\ Called("apply_move") /\ last'.err = "ok"
      /\ last'.mv.promotion_to \in PIECE_REGISTRY)
     => LET src == <<last'.mv.fx, last'.mv.fy>>
            dst == <<last'.mv.tx, last'.mv.ty>>
            c == grid[src].color
        IN /\ grid'[dst].kind = upper(last'.mv.promotion_to)
           /\ grid'[dst].color = c
           /\ \A s \in Squares : grid[s].id # grid'[dst].id
           /\ Cardinality(EntriesAt(BoardAfter, c, dst)) = 1
           /\ \A k \in EntriesAt(BoardAfter, c, dst) : pieces'[c][k].p.id = grid'[dst].id
           /\ \A e \in EntrySet(BoardAfter, c) : e[1] # grid[src].id]_vars

\* C11: when promotion_to names a kind the catalogue cannot construct,
\* apply_move still succeeds, the original moving piece stands on the
\* destination, and the grid, the piece index and the royal cache agree with
\* each other afterwards.
C11_PromotionSoftFail ==
  [][(/\ Called("apply_move")
      /\ IndexConsistent(B) /\ RoyalConsistent(B)
      /\ check_bounds(last'.mv.fx, last'.mv.fy) /\ check_bounds(last'.mv.tx, last'.mv.ty)
      /\ ~Refused(B, last'.mv)
      /\ last'.mv.promotion_to # "" /\ last'.mv.promotion_to \notin PIECE_REGISTRY)
     => /\ last'.err = "ok"
        /\ grid'[<<last'.mv.tx, last'.mv.ty>>] = grid[<<last'.mv.fx, last'.mv.fy>>]
        /\ IndexConsistent(BoardAfter)
        /\ RoyalConsistent(BoardAfter)]_vars

\* The moves collect_moves gives the pieces of colour c.
GeneratedFor(b, c) == {mv \in Generated(b) : mv.piece.color = c}

\* Every pseudo-legal move of colour c for which causes_self_check is false.
Naive(b, c) ==
  {mv \in GeneratedFor(b, c) :
     LET r == causes_self_check(b, mv) IN r.err = "ok" /\ ~r.ret}

\* C12: for every position and colour, legal_moves_for(colour) returns exactly
\* the pseudo-legal moves of that colour's pieces for which causes_self_check
\* is false.
C12_PruningEquivalence ==
  [][(/\ Called("legal_moves_for")
      /\ IndexConsistent(B) /\ RoyalConsistent(B))
     => /\ last'.err = "ok"
        /\ last'.res = Naive(B, last'.color)]_vars

\* The pseudo-legal moves of colour c that can be applied and leave no royal
\* square of colour c attacked (read off the grid alone).
LegalMoves(b, c) ==
  {mv \in GeneratedFor(b, c) :
     LET r == apply_move(b, mv) IN r.err = "ok" /\ ~RoyalAttacked(r.b, c)}

\* C13: is_checkmated(colour) returns true exactly when colour is in check
\* and has no legal move; for the lone royal king in the corner, checked by
\* an adjacent queen that another enemy piece defends, it returns true.
C13_CheckmateDetection ==
  [][(/\ Called("is_checkmated")
      /\ IndexConsistent(B) /\ RoyalConsistent(B))
     => /\ last'.err = "ok"
        /\ last'.ret <=> (RoyalAttacked(B, last'.color) /\ LegalMoves(B, last'.color) = {})]_vars

\* The royal squares of colour c that an enemy piece attacks, with the attackers.
Checkers(b, c) ==
  {a \in Squares :
     /\ b.grid[a] # None /\ b.grid[a].color # c
     /\ \E r \in RoyalSquares(b, c) : can_attack(b, b.grid[a], a[1], a[2], r[1], r[2])}

\* Colour c has one royal piece, a king; one enemy piece checks it, from an
\* adjacent square that no other enemy piece attacks.
EscapeByCapture(b, c) ==
  /\ Cardinality(RoyalSquares(b, c)) = 1
  /\ Cardinality(Checkers(b, c)) = 1
  /\ \E r \in RoyalSquares(b, c), a \in Checkers(b, c) :
       /\ b.grid[r].kind = "K"
       /\ Max2(Abs(a[1] - r[1]), Abs(a[2] - r[2])) = 1
       /\ \A o \in Squares :
            (b.grid[o] # None /\ b.grid[o].color # c /\ o # a)
              => ~can_attack(b, b.grid[o], o[1], o[2], a[1], a[2])

\* C14: when the royal king is checked by a single adjacent enemy piece whose
\* square no other enemy piece attacks, legal_moves_for contains the king's
\* capture of that piece and is_checkmated returns false.
C14_EscapeByCapture ==
  [][/\ (/\ Called("legal_moves_for")
         /\ IndexConsistent(B) /\ RoyalConsistent(B)
         /\ EscapeByCapture(B, last'.color))
        => /\ last'.err = "ok"
           /\ \E mv \in last'.res :
                /\ <<mv.fx, mv.fy>> \in RoyalSquares(B, last'.color)
                /\ <<mv.tx, mv.ty>> \in Checkers(B, last'.color)
     /\ (/\ Called("is_checkmated")
         /\ IndexConsistent(B) /\ RoyalConsistent(B)
         /\ EscapeByCapture(B, last'.color))
        => /\ last'.err = "ok"
           /\ ~last'.ret]_vars

\* C15: is_in_check(colour) is true exactly when some square that holds a
\* royal piece of that colour is attacked by the other colour, and false
\* when the colour has no royal piece, also with several royal pieces and
\* after any of them has moved.
C15_CheckDetection ==
  [][(Called("is_in_check") /\ IndexConsistent(B))
     => /\ last'.err = "ok"
        /\ last'.ret <=> RoyalAttacked(B, last'.color)]_vars

\* C16: after each successful Game.play(mv) the halfmove clock is 0 if the
\* move captured (the destination held an opposing piece, or the move is an
\* en-passant capture) or the moved piece is a pawn or a sergeant; otherwise
\* it is its previous value plus 1.
C16_HalfmoveClock ==
  [][(Called("play") /\ last'.err = "ok")
     => LET moved == grid[<<last'.mv.fx, last'.mv.fy>>]
            dst == grid[<<last'.mv.tx, last'.mv.ty>>]
            captured == last'.mv.is_en_passant \/ (dst # None /\ dst.color # moved.color)
        IN halfmove_clock' = IF captured \/ moved.kind \in {"P", "D"}
                             THEN 0 ELSE halfmove_clock + 1]_vars

\* A sergeant has just moved without capturing, and the clock is 0.
C16_Witness ==
  /\ last.op = "play" /\ last.err = "ok"
  /\ last.mv.piece.kind = "D" /\ ~last.mv.is_en_passant
  /\ Cardinality(Occupied(B)) = 3
  /\ halfmove_clock = 0

\* ---------------------------------------------------------------- long games
\* Long games: moves of the track, and a rejected move while no earlier one
\* has left its mark on the index, until the game is asked for its result.
InitResult == InitOn(GameSetups)
NextResult ==
  /\ ops < MaxPlies
  /\ last.op # "result_if_over"
  /\ \/ \E mv \in GameInputs(B) \cup (IF IndexConsistent(B) THEN RejectedInputs(B) ELSE {}) :
          PlayCall(mv)
     \/ ResultIfOver
SpecResult == InitResult /\ [][NextResult]_vars

\* Some position has stood on the board three times.
Repeated == \E k \in DOMAIN seen : seen[k] >= 3

C18_ThreefoldRepetition ==
  [][Called("result_if_over")
     => ((last'.err = "ok" /\ last'.res = "draw_threefold") <=> Repeated)]_vars

\* Colour c has a royal piece that is attacked, and no legal move.
Checkmated(b, c) ==
  RoyalSquares(b, c) # {} /\ RoyalAttacked(b, c) /\ LegalMoves(b, c) = {}

\* Colour c has a royal piece that is not attacked, and no legal move.
Stalemated(b, c) ==
  RoyalSquares(b, c) # {} /\ ~RoyalAttacked(b, c) /\ LegalMoves(b, c) = {}

\* The outcome by the order of precedence.
Outcome(b, g) ==
  IF \E k \in DOMAIN g.position_counts : g.position_counts[k] >= 3 THEN "draw_threefold"
  ELSE IF g.halfmove_clock >= 100 THEN "draw_50m"
  ELSE IF Checkmated(b, g.turn) THEN (IF g.turn = "w" THEN "checkmate_b" ELSE "checkmate_w")
  ELSE IF Stalemated(b, g.turn) THEN "stalemate"
  ELSE "none"

\* C19: result precedence.  result_if_over returns the threefold draw when
\* some position count is at least 3; otherwise the 50-move draw when the
\* clock is at least 100; otherwise checkmate or stalemate of the side to
\* move; and no result when none of these holds.
C19_ResultPrecedence ==
  [][(/\ Called("result_if_over")
      /\ IndexConsistent(B) /\ RoyalConsistent(B))
     => /\ last'.err = "ok"
        /\ last'.res = Outcome(B, G)]_vars

\* C20: when no position count has reached 3, the clock is below 100 and the
\* side to move is not in check but has no legal move, result_if_over
\* returns the stalemate outcome.
C20_StalemateReported ==
  [][(/\ Called("result_if_over")
      /\ IndexConsistent(B) /\ RoyalConsistent(B)
      /\ \A k \in DOMAIN position_counts : position_counts[k] < 3
      /\ halfmove_clock < 100
      /\ Stalemated(B, turn))
     => (last'.err = "ok" /\ last'.res = "stalemate")]_vars

\* The index of colour c that put calls in row-major order would build for
\* the pieces on the grid.
RECURSIVE ScanIndex(_, _, _)
ScanIndex(b, c, n) ==
  IF n = BoardH * BoardW THEN <<>>
  ELSE LET x == n \div BoardW
           y == n % BoardW
           p == at(b, x, y)
       IN (IF p # None /\ p.color = c THEN <<[p |-> p, x |-> x, y |-> y]>> ELSE <<>>)
            \o ScanIndex(b, c, n + 1)

\* The board with the same squares, royal cache and en-passant target, and
\* the index in row-major order.
Rebuilt(b) == [b EXCEPT !.pieces = [c \in Colors |-> ScanIndex(b, c, 0)]]

\* C21: the position key is canonical.  For either side to move, the key of
\* the board is the key of the board that holds the same pieces on the same
\* squares with the same en-passant target and has its index in row-major
\* order.
C21_CanonicalKey ==
  \A t \in Colors : position_key(B, t) = position_key(Rebuilt(B), t)

\* ---------------------------------------------------------------- short games
\* The longest run of a short game.
MaxKeyPlies == 5

\* The boards short games start from: a black knight on one post and a white
\* general on the other, with a white alibaba-rider beside the general and a
\* white pawn that has one step left; and the boards of the long games.
KeySetups ==
  { <<PutCall(4, 1, "N", "b"), PutCall(6, 2, "M", "w"), PutCall(7, 2, "Y", "w"),
      PutCall(1, 0, "P", "w")>> } \cup GameSetups

\* Short games: moves of the track and rejected moves.
InitKeys == InitOn(KeySetups)
NextKeys ==
  /\ ops < MaxKeyPlies
  /\ \E mv \in GameInputs(B) \cup RejectedInputs(B) : PlayCall(mv)
SpecKeys == InitKeys /\ [][NextKeys]_vars

\* C22: the position key separates positions.  Every successful move counts
\* the position it leaves once under its key and once in the history, so the
\* key of the position on the board has been counted as often as the
\* position has occurred unless the key was also given to another position:
\* after every successful move the count under the key of the position is at
\* most the number of occurrences of the position.
C22_KeySeparates ==
  [][(Called("play") /\ last'.err = "ok")
     => LET k == position_key(BoardAfter, turn')
        IN k \in DOMAIN position_counts'
           /\ position_counts'[k] <= seen'[Position(BoardAfter, turn')]]_vars

\* C23: a failed placement is atomic.  When put fails because the catalogue
\* cannot construct the kind, the occupant of every square, the piece index
\* of each colour, the royal cache and the en-passant target are what they
\* were before the call.
C23_FailedPutChangesNothing ==
  [][(/\ Called("put") /\ last'.err = "ValueError"
      /\ last'.kind \notin PIECE_REGISTRY
      /\ IndexConsistent(B) /\ RoyalConsistent(B))
     => SameBoard(B, BoardAfter)]_vars

\* C24: clear is an idempotent removal that succeeds on every in-bounds
\* square.  It completes without error, leaves the square empty with no index
\* entry and no royal-cache entry for it, and clearing the square again
\* changes nothing.
C24_ClearIdempotent ==
  [][(Called("clear") /\ check_bounds(last'.x, last'.y))
     => LET s == <<last'.x, last'.y>>
            again == clear(BoardAfter, s[1], s[2])
        IN /\ last'.err = "ok"
           /\ grid'[s] = None
           /\ \A c \in Colors :
                /\ \A k \in 1 .. Len(pieces'[c]) : <<pieces'[c][k].x, pieces'[c][k].y>> # s
                /\ s \notin royal_pos'[c].at
           /\ again.err = "ok" /\ again.b = BoardAfter]_vars

\* ---------------------------------------------------------------- coordinates off the board
\* Board.at: the bounds test, then the occupant.
Board_at(b, x, y) ==
  IF ~check_bounds(x, y) THEN [b |-> b, err |-> "IndexError", ret |-> None]
  ELSE [b |-> b, err |-> "ok", ret |-> at(b, x, y)]

\* Board.collect_moves: the bounds test, then the piece's moves.
Board_collect_moves(b, x, y) ==
  IF ~check_bounds(x, y) THEN [b |-> b, err |-> "IndexError", ret |-> {}]
  ELSE [b |-> b, err |-> "ok", ret |-> collect_moves(b, x, y)]

\* Squares one step off the board, one past each edge.
Outside == {<<-1, 1>>, <<BoardH, 0>>, <<1, -1>>, <<1, BoardW>>}

\* Moves to or from a square off the board.
OutsideMoves(b) ==
  {Move(s[1], s[2], t[1], t[2], b.grid[s], FALSE, FALSE, "") : s \in Occupied(b), t \in Outside}
    \cup {Move(t[1], t[2], s[1], s[2], None, FALSE, FALSE, "") : s \in Occupied(b), t \in Outside}

\* board.at(x, y)
At(x, y) ==
  /\ ops < MaxOps
  /\ LET r == Board_at(B, x, y) IN
       /\ SetBoard(r.b)
       /\ last' = [Answer("at", "", r.err, r.ret # None, r.ret) EXCEPT !.x = x, !.y = y]
  /\ ops' = ops + 1
  /\ UNCHANGED gameVars

\* board.collect_moves(x, y)
CollectMoves(x, y) ==
  /\ ops < MaxOps
  /\ LET r == Board_collect_moves(B, x, y) IN
       /\ SetBoard(r.b)
       /\ last' = [Answer("collect_moves", "", r.err, r.ret # {}, r.ret) EXCEPT !.x = x, !.y = y]
  /\ ops' = ops + 1
  /\ UNCHANGED gameVars

\* board.is_square_attacked(x, y, by_color): no bounds test is made.
IsSquareAttacked(x, y, by_color) ==
  /\ ops < MaxOps
  /\ last' = [Answer("is_square_attacked", by_color, "ok",
                      is_square_attacked(B, x, y, by_color), {}) EXCEPT !.x = x, !.y = y]
  /\ ops' = ops + 1
  /\ UNCHANGED <<boardVars, gameVars>>

\* Every operation that takes a coordinate, called with a square off the
\* board, and the moves that change the boards such calls are made on.
NextBounds ==
  /\ ops < MaxOps
  /\ \/ \E s \in Outside : At(s[1], s[2])
     \/ \E s \in Outside, kind \in PutKinds, color \in Colors : Put(s[1], s[2], kind, color)
     \/ \E s \in Outside : Clear(s[1], s[2])
     \/ \E s \in Outside, flag \in BOOLEAN : SetRoyal(s[1], s[2], flag)
     \/ \E s \in Outside : CollectMoves(s[1], s[2])
     \/ \E mv \in OutsideMoves(B) \cup Generated(B) : ApplyMove(mv)
     \/ \E s \in Outside, color \in Colors : IsSquareAttacked(s[1], s[2], color)
SpecBounds == Init /\ [][NextBounds]_vars

\* An operation was called with a coordinate off the board.
CalledOutside ==
  /\ ops' = ops + 1
  /\ \/ /\ last'.op \in {"at", "put", "clear", "set_royal", "collect_moves", "is_square_attacked"}
        /\ ~check_bounds(last'.x, last'.y)
     \/ /\ last'.op = "apply_move"
        /\ ~check_bounds(last'.mv.fx, last'.mv.fy) \/ ~check_bounds(last'.mv.tx, last'.mv.ty)

\* C25: out-of-bounds coordinates are rejected eagerly.  at, put, clear,
\* set_royal, collect_moves, apply_move and is_square_attacked, called with a
\* coordinate off the board, fail with the out-of-bounds error and leave the
\* board as it was.
C25_OutOfBoundsRejected ==
  [][CalledOutside => (last'.err = "IndexError" /\ BoardAfter = B)]_vars

\* ---------------------------------------------------------------- the starting layout
\* The three ranks of pieces of the layout string, from the edge inwards,
\* over its ten files.
LayoutRanks ==
  << <<"V", "Y", "R", "H", "Q", "K", "H", "R", "Y", "V">>,
     <<"M", "d", "N", "d", "Y", "Y", "d", "N", "d", "M">>,
     <<"K", "P", "P", "P", "P", "P", "P", "P", "P", "K">> >>

\* The file of the layout that column 0 of the board stands for: the board
\* is the strip of BoardW neighbouring files of the ten that has the file
\* of the royal kings ('f', file 5) in it.
LayoutLeft == 4
RoyalFile == 5

\* The token of the layout at row x and column y of the board: black on
\* rows 0..2, white on rows BoardH-3..BoardH-1, nothing between them.
LayoutCell(x, y) ==
  LET f == ((LayoutLeft + y) % 10) + 1 IN
    IF x < 3 THEN [kind |-> LayoutRanks[x + 1][f], color |-> "b"]
    ELSE IF x >= BoardH - 3 THEN [kind |-> LayoutRanks[BoardH - x][f], color |-> "w"]
    ELSE [kind |-> "", color |-> ""]

\* The loop over the cells: set_piece(None) or set_piece(create(kind, clr))
\* on each square in row-major order.  Only the squares are written; the
\* index and the royal cache are not touched.
RECURSIVE FillLayout(_, _)
FillLayout(b, n) ==
  IF n = BoardH * BoardW THEN b
  ELSE LET x == n \div BoardW
           y == n % BoardW
           c == LayoutCell(x, y)
       IN IF c.kind = "" THEN FillLayout(set_piece(b, x, y, None), n + 1)
          ELSE FillLayout([set_piece(b, x, y, Piece(c.kind, c.color, b.nid))
                             EXCEPT !.nid = b.nid + 1], n + 1)

\* Board.setup_from_layout: fill the squares, then set_royal_alg('f', 1)
\* and set_royal_alg('f', 10), which are set_royal on the bottom and the top
\* square of the royal file.
setup_from_layout(b) ==
  LET filled == FillLayout(b, 0)
      r1 == set_royal(filled, BoardH - 1, RoyalFile - LayoutLeft, TRUE)
  IN IF r1.err # "ok" THEN r1
     ELSE set_royal(r1.b, 0, RoyalFile - LayoutLeft, TRUE)

\* board.setup_from_layout()
SetupFromLayout ==
  /\ ops < MaxOps
  /\ LET r == setup_from_layout(B) IN
       /\ SetBoard(r.b)
       /\ last' = Call("setup_from_layout", NoMove, 0, 0, "", "", FALSE, r.err, FALSE)
  /\ ops' = ops + 1
  /\ UNCHANGED gameVars

\* The squares attack queries are made for: in front of each side's pawns
\* and on the royal file.
AttackSquares == {<<BoardH - 4, 1>>, <<3, 1>>, <<2, 1>>, <<5, 1>>}

\* The layout set up on a board, before or after other calls; moves, puts,
\* clears and royal flags on it; attack queries.
NextLayout ==
  /\ ops < MaxOps
  /\ \/ SetupFromLayout
     \/ \E mv \in Generated(B) : ApplyMove(mv)
     \/ \E s \in PutSquares, color \in Colors : Put(s[1], s[2], "N", color)
     \/ \E s \in PutSquares : Clear(s[1], s[2])
     \/ \E s \in PutSquares : SetRoyal(s[1], s[2], TRUE)
     \/ \E s \in AttackSquares, color \in Colors : IsSquareAttacked(s[1], s[2], color)
SpecLayout == Init /\ [][NextLayout]_vars

\* C26: layout setup establishes the invariants.  After setup_from_layout
\* the index of each colour holds exactly that colour's pieces on the grid
\* with their coordinates, the royal cache is exactly the two designated
\* squares (white on the bottom row, black on the top row of the royal
\* file), and the attack query sees every piece of the position.
C26_LayoutEstablishesInvariants ==
  [][(Called("setup_from_layout") /\ last'.err = "ok")
     => /\ IndexConsistent(BoardAfter)
        /\ royal_pos' = [c \in Colors |->
                           [tag |-> "set",
                            at |-> {<<IF c = "w" THEN BoardH - 1 ELSE 0, RoyalFile - LayoutLeft>>}]]
        /\ \A s \in Squares, c \in Colors :
              is_square_attacked(BoardAfter, s[1], s[2], c)
                <=> is_square_attacked(Rebuilt(BoardAfter), s[1], s[2], c)]_vars

\* ---------------------------------------------------------------- coords.py
\* A string is the sequence of its characters.
UpperLetters ==
  <<"A", "B", "C", "D", "E", "F", "G", "H", "I", "J", "K", "L", "M",
    "N", "O", "P", "Q", "R", "S", "T", "U", "V", "W", "X", "Y", "Z">>
LowerLetters ==
  <<"a", "b", "c", "d", "e", "f", "g", "h", "i", "j", "k", "l", "m",
    "n", "o", "p", "q", "r", "s", "t", "u", "v", "w", "x", "y", "z">>
Digits == <<"0", "1", "2", "3", "4", "5", "6", "7", "8", "9">>

\* The position of a character in a sequence of characters, 0 if absent.
IndexOf(ch, chars) ==
  IF \E i \in 1 .. Len(chars) : chars[i] = ch
  THEN CHOOSE i \in 1 .. Len(chars) : chars[i] = ch
  ELSE 0

\* chr(ord('A') + y), for the columns to_alg lets through.
chr_A_plus(y) == UpperLetters[y + 1]

\* ord(ch) - ord('A') of an upper-case letter.
ord_minus_A(ch) == IndexOf(ch, UpperLetters) - 1

\* The decimal digits an f-string writes for a positive integer.
RECURSIVE str_int(_)
str_int(n) ==
  IF n < 10 THEN <<Digits[n + 1]>>
  ELSE str_int(n \div 10) \o <<Digits[(n % 10) + 1]>>

\* int() of a string of decimal digits.
RECURSIVE int_str(_)
int_str(s) ==
  IF s = <<>> THEN 0
  ELSE 10 * int_str(SubSeq(s, 1, Len(s) - 1)) + (IndexOf(s[Len(s)], Digits) - 1)

\* Whether int() accepts the string: here, one decimal digit or more.
is_int(s) == s # <<>> /\ \A i \in 1 .. Len(s) : IndexOf(s[i], Digits) > 0

\* str.strip(): the blanks at both ends are dropped.
RECURSIVE strip(_)
strip(s) ==
  IF s = <<>> THEN s
  ELSE IF Head(s) = " " THEN strip(Tail(s))
  ELSE IF s[Len(s)] = " " THEN strip(SubSeq(s, 1, Len(s) - 1))
  ELSE s

\* str.upper(): the lower-case letters become upper-case.
str_upper(s) ==
  [i \in 1 .. Len(s) |->
     IF IndexOf(s[i], LowerLetters) > 0 THEN UpperLetters[IndexOf(s[i], LowerLetters)] ELSE s[i]]

\* to_alg(x, y, h, w)
to_alg(x, y, h, w) ==
  IF ~(0 <= x /\ x < h /\ 0 <= y /\ y < w) THEN [err |-> "ValueError", res |-> <<>>]
  ELSE IF w > 26 THEN [err |-> "ValueError", res |-> <<>>]
  ELSE LET file_ch == chr_A_plus(y)
           rank == h - x
       IN [err |-> "ok", res |-> <<file_ch>> \o str_int(rank)]

\* from_alg with the row taken for the rank.
from_alg_unflipped(coord, h, w) ==
  IF w > 26 THEN [err |-> "ValueError", res |-> <<>>]
  ELSE LET s == str_upper(strip(coord)) IN
    IF Len(s) < 2 \/ IndexOf(s[1], UpperLetters) = 0 THEN [err |-> "ValueError", res |-> <<>>]
    ELSE IF ~is_int(Tail(s)) THEN [err |-> "ValueError", res |-> <<>>]
    ELSE LET rank == int_str(Tail(s))
             y == ord_minus_A(s[1])
             x == rank - 1
         IN IF ~(1 <= rank /\ rank <= h) THEN [err |-> "ValueError", res |-> <<>>]
            ELSE IF ~(0 <= y /\ y < w) THEN [err |-> "ValueError", res |-> <<>>]
            ELSE [err |-> "ok", res |-> <<x, y>>]

\* from_alg(coord, h, w)
from_alg(coord, h, w) ==
  IF w > 26 THEN [err |-> "ValueError", res |-> <<>>]
  ELSE LET s == str_upper(strip(coord)) IN
    IF Len(s) < 2 \/ IndexOf(s[1], UpperLetters) = 0 THEN [err |-> "ValueError", res |-> <<>>]
    ELSE IF ~is_int(Tail(s)) THEN [err |-> "ValueError", res |-> <<>>]
    ELSE LET rank == int_str(Tail(s))
             y == ord_minus_A(s[1])
             x == h - rank
         IN IF ~(1 <= rank /\ rank <= h) THEN [err |-> "ValueError", res |-> <<>>]
            ELSE IF ~(0 <= y /\ y < w) THEN [err |-> "ValueError", res |-> <<>>]
            ELSE [err |-> "ok", res |-> <<x, y>>]

\* The board sizes and the strings the two functions are called with: the
\* demo's four calls are among them.
Heights == {1, 10, 11}
Widths == {1, 10, 26, 27}
Typed ==
  { <<"a", "1">>, <<"j", "1", "0">>, <<" ", "B", "2", " ">>, <<"A">>, <<"1", "A">>,
    <<"A", "0">>, <<"A", "x">>, <<"Z", "1">>, <<"A", "1", "2">> }

\* to_alg(x, y, h, w)
ToAlg(x, y, h, w) ==
  /\ LET r == to_alg(x, y, h, w) IN
       last' = [op |-> "to_alg", x |-> x, y |-> y, h |-> h, w |-> w, coord |-> <<>>,
                err |-> r.err, res |-> r.res, pos |-> <<>>]
  /\ ops' = ops + 1
  /\ UNCHANGED <<boardVars, gameVars>>

\* from_alg(coord, h, w)
FromAlg(coord, h, w) ==
  /\ LET r == from_alg(coord, h, w) IN
       last' = [op |-> "from_alg", x |-> 0, y |-> 0, h |-> h, w |-> w, coord |-> coord,
                err |-> r.err, res |-> <<>>, pos |-> r.res]
  /\ ops' = ops + 1
  /\ UNCHANGED <<boardVars, gameVars>>

\* The strings from_alg is given: what to_alg has just returned for the same
\* board, and the typed ones.
MaxCoordOps == 2
InitCoords == InitOn({<<>>})
NextCoords ==
  /\ ops < MaxCoordOps
  /\ \/ \E h \in Heights, w \in Widths : \E x \in -1 .. h, y \in -1 .. w : ToAlg(x, y, h, w)
     \/ \E h \in Heights, w \in Widths :
          \E coord \in Typed \cup (IF last.op = "to_alg" /\ last.err = "ok"
                                     /\ last.h = h /\ last.w = w THEN {last.res} ELSE {}) :
            FromAlg(coord, h, w)
SpecCoords == InitCoords /\ [][NextCoords]_vars

\* C27: coordinate round trip.  For every height h, width w <= 26 and
\* every (x, y) on the h x w board, from_alg of the string to_alg returned
\* for (x, y), with the same h and w, returns (x, y).
C27_RoundTrip ==
  [][(/\ Called("from_alg")
      /\ last.op = "to_alg" /\ last.err = "ok"
      /\ last'.coord = last.res /\ last'.h = last.h /\ last'.w = last.w)
     => (last'.err = "ok" /\ last'.pos = <<last.x, last.y>>)]_vars
C27_Witness ==
  /\ last.op = "from_alg" /\ last.err = "ok"
  /\ last.coord = <<"Z", "1", "1">> /\ last.h = 11 /\ last.w = 26
  /\ last.pos = <<0, 25>>

\* ---------------------------------------------------------------- double check, attack queries
\* Some square of the grid holds a piece of colour c whose can_attack
\* reaches (x, y).
GridAttacked(b, x, y, c) ==
  \E s \in Squares :
    /\ b.grid[s] # None /\ b.grid[s].color = c
    /\ can_attack(b, b.grid[s], s[1], s[2], x, y)

\* Colour c has one royal piece and two or more enemy pieces attack its square.
DoubleChecked(b, c) ==
  Cardinality(RoyalSquares(b, c)) = 1 /\ Cardinality(Checkers(b, c)) >= 2

\* The moves of the royal piece of colour c to a square no enemy piece
\* attacks, that leave no royal square of colour c attacked.
RoyalEscapes(b, c) ==
  {mv \in LegalMoves(b, c) :
     /\ <<mv.fx, mv.fy>> \in RoyalSquares(b, c)
     /\ ~GridAttacked(b, mv.tx, mv.ty, Opponent(c))}

\* C28: double check.  When two or more opposing pieces attack the royal
\* square of a colour, legal_moves_for(colour) returns exactly the moves of
\* the royal piece itself to squares the opponent does not attack that do
\* not cause self-check.
C28_DoubleCheck ==
  [][(Called("legal_moves_for") /\ DoubleChecked(B, last'.color))
     => (last'.err = "ok" /\ last'.res = RoyalEscapes(B, last'.color))]_vars

\* The board without its stale index entries: those whose piece no longer
\* stands on the recorded square.
Fresh(b) ==
  [b EXCEPT !.pieces =
     [c \in Colors |-> SelectSeq(b.pieces[c], LAMBDA e : at(b, e.x, e.y).id = e.p.id)]]

\* C29: the index-driven attack query agrees with a full scan of the grid.
\* In every state reached through put, clear, set_royal, setup_from_layout
\* and apply_move, is_square_attacked(x, y, colour) is true exactly when
\* some square of the grid holds a piece of that colour whose can_attack
\* reaches (x, y); an index entry whose piece is no longer on its recorded
\* square never contributes an attack.
C29_AttackQueryMatchesGrid ==
  [][(Called("is_square_attacked") /\ check_bounds(last'.x, last'.y))
     => /\ last'.err = "ok"
        /\ last'.ret <=> GridAttacked(B, last'.x, last'.y, last'.color)
        /\ last'.ret <=> is_square_attacked(Fresh(B), last'.x, last'.y, last'.color)]_vars

\* C30: no move onto an own piece.  In every state reached through put,
\* clear and apply_move, no move that collect_moves returns for any piece,
\* en-passant, double-step and promotion moves included, ends on a square
\* that holds a piece of the mover's colour.
C30_NoMoveOntoOwnPiece ==
  \A s \in Occupied(B) :
    \A mv \in Board_collect_moves(B, s[1], s[2]).ret :
      at(B, mv.tx, mv.ty) = None \/ at(B, mv.tx, mv.ty).color # mv.piece.color

\* ---------------------------------------------------------------- double steps
\* The moves collect_moves returns on the board, over all its pieces.
DoubleSteps(b) == {mv \in Generated(b) : mv.is_double_step}

AttackRows == 1 .. 4
AttackFrom == {<<2, 1>>, <<4, 0>>}
AttackSetups ==
  LET region == AttackRows \X (0 .. BoardW - 1)
      other(c) == IF c = "w" THEN "b" ELSE "w"
      two == {q \in AttackFrom \X region \X PIECE_REGISTRY \X Colors : q[1] # q[2]}
      three == {r \in two \X region \X Colors : r[2] \notin {r[1][1], r[1][2]}}
      puts(q) == <<PutCall(q[1][1], q[1][2], q[3], q[4]),
                   PutCall(q[2][1], q[2][2], "N", other(q[4]))>>
  IN {puts(q) : q \in two}
       \cup {puts(r[1]) \o <<PutCall(r[2][1], r[2][2], "P", r[3])>> : r \in three}

MaxAttackOps == 1
InitAttack == InitOn(AttackSetups)
NextAttack ==
  /\ ops < MaxAttackOps
  /\ \/ \E s \in Occupied(B) : CollectMoves(s[1], s[2])
     \/ \E mv \in Generated(B) : ApplyMove(mv)
SpecAttack == InitAttack /\ [][NextAttack]_vars

\* The squares strictly between s and t on a row, a column or a diagonal.
Between(s, t) ==
  {u \in Squares :
     /\ u # s /\ u # t
     /\ \/ s[1] = t[1] /\ u[1] = s[1]
        \/ s[2] = t[2] /\ u[2] = s[2]
        \/ /\ Abs(t[1] - s[1]) = Abs(t[2] - s[2])
           /\ Abs(u[1] - s[1]) = Abs(u[2] - s[2])
           /\ Abs(u[1] - t[1]) = Abs(u[2] - t[2])
     /\ Abs(u[1] - s[1]) + Abs(u[1] - t[1]) = Abs(t[1] - s[1])
     /\ Abs(u[2] - s[2]) + Abs(u[2] - t[2]) = Abs(t[2] - s[2])}

\* The piece on s reaches t along a line (a rook, a queen, an archbishop on
\* a diagonal).
Slides(p, s, t) ==
  LET dx == Abs(t[1] - s[1])
      dy == Abs(t[2] - s[2])
  IN \/ p.kind = "R" /\ (dx = 0 \/ dy = 0)
     \/ p.kind = "Q" /\ (dx = 0 \/ dy = 0 \/ dx = dy)
     \/ p.kind = "H" /\ dx = dy

\* C32: the attack predicate agrees with capture generation.  For every
\* piece on a square s and every square t that holds a piece of the other
\* colour, can_attack(board, s, t) is true exactly when collect_moves of s
\* holds a move to t; a piece that slides towards t attacks it only if
\* every square strictly between is empty, a leap is decided without regard
\* to the other pieces, and no piece attacks its own square.
C32_AttackAgreesWithCaptures ==
  \A s \in Occupied(B) :
    LET p == at(B, s[1], s[2]) IN
      /\ ~can_attack(B, p, s[1], s[2], s[1], s[2])
      /\ \A t \in Occupied(B) :
           at(B, t[1], t[2]).color # p.color =>
             (can_attack(B, p, s[1], s[2], t[1], t[2])
                <=> \E mv \in Board_collect_moves(B, s[1], s[2]).ret : <<mv.tx, mv.ty>> = t)
      /\ \A t \in Squares \ {s} :
           IF Slides(p, s, t)
           THEN can_attack(B, p, s[1], s[2], t[1], t[2])
                  <=> \A u \in Between(s, t) : at(B, u[1], u[2]) = None
           ELSE can_attack(B, p, s[1], s[2], t[1], t[2])
                  <=> can_attack(Board0, p, s[1], s[2], t[1], t[2])
\* collect_moves was called for a sliding piece that has one enemy piece
\* next to it, which it attacks, and another behind that one, which it
\* does not.
C32_Witness ==
  /\ last.op = "collect_moves" /\ last.err = "ok"
  /\ LET s == <<last.x, last.y>>
         p == at(B, last.x, last.y)
     IN \E t \in Occupied(B), u \in Occupied(B) :
          /\ p.kind \in {"R", "Q", "H"}
          /\ Slides(p, s, t) /\ u \in Between(s, t)
          /\ at(B, t[1], t[2]).color # p.color /\ at(B, u[1], u[2]).color # p.color
          /\ ~can_attack(B, p, s[1], s[2], t[1], t[2])
          /\ can_attack(B, p, s[1], s[2], u[1], u[2])
          /\ \E mv \in last.res : <<mv.tx, mv.ty>> = u

\* ---------------------------------------------------------------- the royal cache under is_in_check
\* put, clear, set_royal, apply_move and the check query.
NextCheck ==
  /\ ops < MaxOps
  /\ \/ \E s \in PutSquares, kind \in PutKinds, color \in Colors : Put(s[1], s[2], kind, color)
     \/ \E s \in Touched : Clear(s[1], s[2])
     \/ \E s \in Touched, flag \in BOOLEAN : SetRoyal(s[1], s[2], flag)
     \/ \E mv \in MoveInputs(B) : ApplyMove(mv)
     \/ \E color \in Colors : IsInCheck(color)
SpecCheck == Init /\ [][NextCheck]_vars

\* C33: the defensive royal-cache assertion is unreachable.  In every state
\* reached through put, clear, set_royal and apply_move, royal pieces that
\* have moved or been captured included, is_in_check of either colour
\* returns a boolean and does not fail with the error for an inconsistent
\* royal cache.
C33_CheckNeverRejectsCache ==
  [][Called("is_in_check") => (last'.err = "ok" /\ last'.ret \in BOOLEAN)]_vars
\* is_in_check answered for a colour whose royal piece has moved, so that
\* its cache entry is the bare pair apply_move stored.
C33_Witness ==
  /\ last.op = "is_in_check" /\ last.err = "ok"
  /\ royal_pos[last.color].tag = "tuple"
  /\ \E s \in royal_pos[last.color].at : grid[s].royal /\ grid[s].color = last.color

\* ---------------------------------------------------------------- games of generated moves
\* Sequences of apply_move calls, each with a move collect_moves returns on
\* the board as it then is.
NextMoves ==
  /\ ops < MaxOps
  /\ \E mv \in Generated(B) : ApplyMove(mv)
SpecMoves == Init /\ [][NextMoves]_vars

\* C34: generated moves stay applicable over a whole game.  From a board
\* built with put and set_royal, in every sequence of apply_move calls whose
\* moves are taken from collect_moves on the then-current board, no call
\* fails; a royal piece can be moved more than once and a royal piece that
\* has moved can be captured.
C34_GeneratedMovesApply ==
  [][(Called("apply_move") /\ last'.mv \in Generated(B)) => last'.err = "ok"]_vars

\* ---------------------------------------------------------------- failed plays
\* Game.play with generated moves, moves a caller builds, and moves to or
\* from a square off the board.
NextPlay ==
  /\ ops < MaxOps
  /\ \E mv \in MoveInputs(B) \cup OutsideMoves(B) : PlayCall(mv)
SpecPlay == Init /\ [][NextPlay]_vars

\* C35: a failed play leaves the Game untouched.  When Game.play(mv) fails
\* because Board.at or Board.apply_move raises, the side to move,
\* halfmove_clock and position_counts are as before the call.
C35_FailedPlayKeepsGame ==
  [][(/\ Called("play") /\ last'.err # "ok"
      /\ ~check_bounds(last'.mv.tx, last'.mv.ty) \/ apply_move(B, last'.mv).err # "ok")
     => /\ turn' = turn
        /\ halfmove_clock' = halfmove_clock
        /\ position_counts' = position_counts]_vars
\* A play failed in apply_move after a move that had advanced the clock and
\* handed the turn to black.
C35_Witness ==
  /\ last.op = "play" /\ last.err \in {"ValueError", "AttributeError"}
  /\ check_bounds(last.mv.tx, last.mv.ty)
  /\ halfmove_clock = 1 /\ turn = "b" /\ ops = 2

\* ---------------------------------------------------------------- frame of a move
\* The pieces the index of colour c records on square s.
IndexedAt(b, c, s) == {b.pieces[c][k].p : k \in EntriesAt(b, c, s)}

\* The squares a move may change: its source, its destination and, for an
\* en-passant capture, the recorded victim square.
MoveSquares(b, mv) ==
  {<<mv.fx, mv.fy>>, <<mv.tx, mv.ty>>}
    \cup (IF mv.is_en_passant /\ b.en_passant_target # <<>>
          THEN {b.en_passant_target[2]} ELSE {})

\* C36: frame of a move.  A successful apply_move(mv) changes the occupant
\* of the source square, of the destination square and, for an en-passant
\* capture, of the victim square only; every other square keeps its
\* occupant, its piece-index entry and its royal-cache membership.
C36_MoveFrame ==
  [][(Called("apply_move") /\ last'.err = "ok")
     => \A s \in Squares \ MoveSquares(B, last'.mv) :
          /\ grid'[s] = grid[s]
          /\ \A c \in Colors :
               /\ IndexedAt(BoardAfter, c, s) = IndexedAt(B, c, s)
               /\ (s \in royal_pos'[c].at) <=> (s \in royal_pos[c].at)]_vars

\* ---------------------------------------------------------------- promotion and royalty
\* The board after a black pawn's double step past a white pawn:
\* put(1,1,'P','b'), put(3,0,'P','w') and the generated move (1,1)->(3,1).
InitRoyalPromotion ==
  LET b1 == Setup(Board0, <<PutCall(1, 1, "P", "b"), PutCall(3, 0, "P", "w")>>)
      dbl == CHOOSE m \in collect_moves(b1, 1, 1) : m.is_double_step
      b == apply_move(b1, dbl).b
      g == Game0(b, "w")
  IN /\ grid = b.grid
     /\ pieces = b.pieces
     /\ royal_pos = b.royal_pos
     /\ en_passant_target = b.en_passant_target
     /\ nid = b.nid
     /\ turn = g.turn
     /\ halfmove_clock = g.halfmove_clock
     /\ position_counts = g.position_counts
     /\ seen = count_key([j \in {} |-> 0], Position(b, g.turn))
     /\ last = Call("init", NoMove, 0, 0, "", "", FALSE, "ok", FALSE)
     /\ ops = 0

\* put, set_royal and apply_move after the double step; among the moves, a
\* generated en-passant move to which the caller adds a promotion.
NextRoyalPromotion ==
  /\ ops < MaxOps
  /\ \/ \E s \in PutSquares, kind \in PutKinds, color \in Colors : Put(s[1], s[2], kind, color)
     \/ \E s \in Touched, flag \in BOOLEAN : SetRoyal(s[1], s[2], flag)
     \/ \E mv \in MoveInputs(B)
                  \cup {[g EXCEPT !.promotion_to = "Q"] :
                          g \in {h \in Generated(B) : h.is_en_passant}} : ApplyMove(mv)
SpecRoyalPromotion == InitRoyalPromotion /\ [][NextRoyalPromotion]_vars

\* C37: promotion never creates or keeps a royal.  After a successful
\* apply_move whose promotion_to names a kind of the catalogue ('K'
\* included), the piece on the destination square is not royal and the
\* destination is in no royal-cache set, whether or not the promoting piece
\* was royal.
C37_PromotionNotRoyal ==
  [][(/\ Called("apply_move") /\ last'.err = "ok"
      /\ last'.mv.promotion_to \in PIECE_REGISTRY)
     => LET dst == <<last'.mv.tx, last'.mv.ty>> IN
          /\ ~grid'[dst].royal
          /\ \A c \in Colors : dst \notin royal_pos'[c].at]_vars

\* C38: a recorded en-passant target is always usable.  After any sequence
\* of put, clear and apply_move calls, whenever en_passant_target is present
\* its victim coordinate holds a pawn or a sergeant (the piece that made the
\* last double step) and its capture-destination square is empty.
C38_EnPassantTargetUsable ==
  en_passant_target # <<>>
    => LET target == en_passant_target[1]
           victim == en_passant_target[2]
       IN /\ grid[victim] # None
          /\ grid[victim].kind \in {"P", "D"}
          /\ grid[target] = None

\* ---------------------------------------------------------------- games past their end
\* The longest run of a game that is played on after its result.
MaxAbsorbOps == 10

\* Games that go on after they are over: moves of the track and rejected
\* moves, with the result asked at any point and play continuing after it.
NextAbsorb ==
  /\ ops < MaxAbsorbOps
  /\ \/ \E mv \in GameInputs(B) \cup RejectedInputs(B) : PlayCall(mv)
     \/ ResultIfOver
SpecAbsorb == InitResult /\ [][NextAbsorb]_vars

\* result_if_over has just returned the threefold draw.
ThreefoldReturned ==
  last.op = "result_if_over" /\ last.err = "ok" /\ last.res = "draw_threefold"

\* Some position count has reached 3.
CountedThrice == \E k \in DOMAIN position_counts : position_counts[k] >= 3

\* C39: the threefold draw is absorbing.  result_if_over returns the
\* threefold draw exactly when some position count is at least 3, and no
\* play call removes or lowers a position count: once the threefold draw has
\* been returned it is returned by every later call, whatever moves were
\* played in between.  play, also when the game is over, succeeds or fails
\* exactly as apply_move does on the same board, and a successful call
\* passes the turn.
C39_ThreefoldAbsorbing ==
  [][/\ Called("result_if_over") => (ThreefoldReturned' <=> CountedThrice)
     /\ Called("play")
        => /\ \A k \in DOMAIN position_counts :
                k \in DOMAIN position_counts' /\ position_counts'[k] >= position_counts[k]
           /\ last'.err = apply_move(B, last'.mv).err
           /\ last'.err = "ok" => turn' # turn]_vars

\* The threefold draw is returned again after further successful moves have
\* taken every position that had occurred three times past its third
\* occurrence.
C39_Witness ==
  /\ ThreefoldReturned
  /\ \E k \in DOMAIN position_counts : position_counts[k] > 3
  /\ \A k \in DOMAIN position_counts : position_counts[k] # 3
====
